---- MODULE Spec2Model ----
(***************************************************************************)
(* Counter propagation and cascade deletion of the annotation backend.     *)
(*                                                                         *)
(* The program's only state is one DynamoDB table.  A row is addressed by  *)
(* (PK, SK); a key string "PREFIX<id>" is the pair <<"PREFIX", id>> and    *)
(* the fixed partition "BLOCK" is <<"BLOCK", 0>>.  A row's item is a       *)
(* function from attribute names to values.                                *)
(*                                                                         *)
(* Spec        : non-overlapping requests of the entity repositories, one  *)
(*               action per handler, the whole handler in one step; every  *)
(*               request succeeds.                                         *)
(* SpecAny     : the same, with requests that fail partway or that delete  *)
(*               an annotation that has no row.                            *)
(* SpecCascade : delete_block, one action per phase / store call, against  *)
(*               a populated block, called up to twice in sequence.        *)
(***************************************************************************)
EXTENDS Integers, Sequences, FiniteSets, TLC

VARIABLES
    table,      \* the DynamoDB table: key -> item, for the rows that exist
    nextId,     \* ids handed out so far, per entity kind (uuid::new_v4 never repeats)
    nFailed,    \* number of requests so far that returned an error
    nPhantom,   \* number of delete_annotation requests so far that named no stored row
    budget,     \* how many failing or row-less requests the run may contain
    counted,    \* per task: images created and images deleted by successful requests
    script,     \* per scenario: how many of its requests the run so far consists of
    pc,         \* delete_block: position of the running call
    delete_keys,\* delete_block: the collected key list
    chunk,      \* delete_block: index of the group of keys being sent
    attempts,   \* delete_block: attempts made for the current group
    unprocessed,\* delete_block: requests of the current group still to send
    sent,       \* delete_block: the keys the running call has asked the store to delete
    calln,      \* delete_block: number of calls started
    outcome,    \* delete_block: per call, its result and what happened in it
    faults,     \* delete_block: store calls answered with an error or with unprocessed items
    table0,     \* the table before the first delete_block call, or before the one request
    last,       \* the one request served under store faults, and its result
    race        \* two concurrent requests: each one's position and locals

vars == <<table, nextId, nFailed, nPhantom, budget, counted, script, pc, delete_keys, chunk, attempts,
          unprocessed, sent, calln, outcome, faults, table0, last, race>>

crudVars == <<table, nextId, nFailed, nPhantom, budget, counted, script>>
requestVars == <<nextId, nFailed, nPhantom, budget, counted, script, last, race>>
cascadeVars == <<pc, delete_keys, chunk, attempts, unprocessed, sent, calln, outcome, faults,
                 table0>>

----------------------------------------------------------------------------
(* Bounds of the model *)

MaxTasks == 2
MaxImages == 2
MaxAnnotations == 1
MaxAnomalies == 1

\* delete_block: the largest block it is called on, and how often it is called
CascTasks == 2
CascLabels == 1
CascImages == 8
CascAnnotations == 2
MaxCalls == 2
MaxFaults == 5

(* The block all requests address, and the id that stands for "no task_id". *)
B == 1
NoTask == 0

TaskIds == 1..MaxTasks
ImageIds == 1..MaxImages
AnnotationIds == 1..MaxAnnotations

TaskStates == {"todo", "in_progress", "done"}

----------------------------------------------------------------------------
(* Keys *)

BlockKey(b) == << <<"BLOCK", 0>>, <<"BLOCK#", b>> >>
TaskKey(b, t) == << <<"BLOCK#", b>>, <<"TASK#", t>> >>
ImageKey(b, i) == << <<"BLOCK#", b>>, <<"IMAGE#", i>> >>
LabelKey(b, l) == << <<"BLOCK#", b>>, <<"LABEL#", l>> >>
AnnotationKey(i, a) == << <<"IMAGE#", i>>, <<"ANNOTATION#", a>> >>

----------------------------------------------------------------------------
(* The store's item-level operations.  Each returns [ok, tb, err].         *)

Has(tb, key) == key \in DOMAIN tb

StoreOk(tb) == [ok |-> TRUE, tb |-> tb, err |-> ""]
StoreErr(tb, e) == [ok |-> FALSE, tb |-> tb, err |-> e]

\* put_item: writes the whole item, replacing a row of the same key
put_item(tb, key, item) ==
    StoreOk([k \in DOMAIN tb \cup {key} |-> IF k = key THEN item ELSE tb[k]])

\* delete_item: removes the row; deleting an absent key succeeds and changes nothing
delete_item(tb, key) ==
    StoreOk([k \in DOMAIN tb \ {key} |-> tb[k]])

\* update_item "SET a = a + :d": the store rejects the expression when the
\* attribute it reads does not exist (no row, or a row without it); otherwise
\* the addition is applied atomically, with no lower bound on the result.
update_item_add(tb, key, attr, d) ==
    IF Has(tb, key) /\ attr \in DOMAIN tb[key]
    THEN StoreOk([tb EXCEPT ![key] = [@ EXCEPT ![attr] = @ + d]])
    ELSE StoreErr(tb, "DynamoDB update_item error")

\* update_item "SET a = :v, ...": writes the named attributes, creating the row
\* when the key has none
update_item_set(tb, key, assigns) ==
    LET old == IF Has(tb, key) THEN tb[key] ELSE <<>>
    IN  StoreOk([k \in DOMAIN tb \cup {key} |-> IF k = key THEN assigns @@ old ELSE tb[k]])

\* a set of sort keys as the sequence the store returns: ascending by sort key
RECURSIVE SortedSeq(_)
SortedSeq(S) ==
    IF S = {} THEN <<>>
    ELSE LET m == CHOOSE x \in S : \A y \in S : x[2] <= y[2]
         IN  <<m>> \o SortedSeq(S \ {m})

\* query "PK = :pk AND begins_with(SK, :sk_prefix)": the sort keys found
Query(tb, pk, prefix) ==
    SortedSeq({k[2] : k \in {x \in DOMAIN tb : x[1] = pk /\ x[2][1] = prefix}})

----------------------------------------------------------------------------
(* A request in progress: the table so far, whether it is still going, the *)
(* store calls issued so far, and the call (if any) at which the store     *)
(* fails.  Then() issues one more call unless the request already ended.   *)

NoFault == 0

Begin(tb, fault) == [tb |-> tb, ok |-> TRUE, err |-> "", calls |-> <<>>, fault |-> fault]

Then(R, name, res) ==
    IF ~R.ok THEN R
    ELSE IF Len(R.calls) + 1 = R.fault
         THEN [R EXCEPT !.ok = FALSE, !.err = "store error", !.calls = Append(@, name)]
         ELSE [R EXCEPT !.tb = res.tb, !.ok = res.ok, !.err = res.err,
                        !.calls = Append(@, name)]

\* parse::<u32>() of a stored number, .unwrap_or(0): a negative number does not parse
ParseU32(n) == IF n >= 0 THEN n ELSE 0

\* one store call, as recorded in a request's call list
Call(op, key, what) == [op |-> op, key |-> key, what |-> what]

----------------------------------------------------------------------------
(* Rows as the repositories read them *)

NoneStr == "<none>"

\* the Task that get_task builds from a stored item
TaskOf(tb, t) ==
    LET item == tb[TaskKey(B, t)]
    IN  [task_state  |-> IF "task_state" \in DOMAIN item THEN item.task_state ELSE "",
         image_count |-> IF "image_count" \in DOMAIN item
                         THEN ParseU32(item.image_count) ELSE 0]

\* the Image that get_image builds from a stored item
ImageOf(tb, i) ==
    LET item == tb[ImageKey(B, i)]
    IN  [task_id |-> IF "task_id" \in DOMAIN item THEN item.task_id ELSE NoTask,
         annotation_count |-> IF "annotation_count" \in DOMAIN item
                              THEN ParseU32(item.annotation_count) ELSE 0]

get_task(R, t) ==
    Then(R, Call("get_item", TaskKey(B, t), ""),
         IF Has(R.tb, TaskKey(B, t)) THEN StoreOk(R.tb)
         ELSE StoreErr(R.tb, "Task not found"))

get_image(R, i) ==
    Then(R, Call("get_item", ImageKey(B, i), ""),
         IF Has(R.tb, ImageKey(B, i)) THEN StoreOk(R.tb)
         ELSE StoreErr(R.tb, "Image not found"))

\* adjust_block that never lowers a counter
adjust_block_no_decrement(R, counter, d) ==
    Then(R, Call("update_item", BlockKey(B), counter),
         update_item_add(R.tb, BlockKey(B), counter, IF d < 0 THEN 0 ELSE d))

\* "SET <counter> = <counter> + :d" on the block row
adjust_block(R, counter, d) ==
    Then(R, Call("update_item", BlockKey(B), counter),
         update_item_add(R.tb, BlockKey(B), counter, d))

\* adjust_task that adds one whatever the delta
adjust_task_always_up(R, t, d) ==
    Then(R, Call("update_item", TaskKey(B, t), "image_count"),
         update_item_add(R.tb, TaskKey(B, t), "image_count", 1))

\* "SET image_count = image_count + :d" on a task row
adjust_task(R, t, d) ==
    Then(R, Call("update_item", TaskKey(B, t), "image_count"),
         update_item_add(R.tb, TaskKey(B, t), "image_count", d))

\* "SET annotation_count = annotation_count + :d" on an image row
\* adjust_image that adds the delta twice
adjust_image_twice(R, i, d) ==
    Then(R, Call("update_item", ImageKey(B, i), "annotation_count"),
         update_item_add(R.tb, ImageKey(B, i), "annotation_count", d + d))

adjust_image(R, i, d) ==
    Then(R, Call("update_item", ImageKey(B, i), "annotation_count"),
         update_item_add(R.tb, ImageKey(B, i), "annotation_count", d))

----------------------------------------------------------------------------
(* Entity repositories *)

BlockItem == [image_count |-> 0, approved_image_count |-> 0, annotation_count |-> 0]

create_task(R, t) ==
    Then(R, Call("put_item", TaskKey(B, t), ""),
         put_item(R.tb, TaskKey(B, t),
                  [task_name |-> "n", task_state |-> "todo", image_count |-> 0]))

\* create_image_approves that does not look at the task's state
create_image_approves_any_state(task) == task.image_count > 0

\* whether create_image bumps approved_image_count, from the task it has read
create_image_approves(task) == task.image_count > 0 /\ task.task_state = "done"

\* create_image that adjusts the block counter before it writes the Image row
create_image_counter_first(R, i, task_id) ==
    LET item == IF task_id = NoTask THEN [annotation_count |-> 0]
                ELSE [annotation_count |-> 0, task_id |-> task_id]
        r1 == adjust_block(R, "image_count", 1)
        r2 == Then(r1, Call("put_item", ImageKey(B, i), ""),
                   put_item(r1.tb, ImageKey(B, i), item))
        r3 == adjust_task(r2, task_id, 1)
        r4 == get_task(r3, task_id)
        r5 == IF r4.ok /\ create_image_approves(TaskOf(r4.tb, task_id))
              THEN adjust_block(r4, "approved_image_count", 1)
              ELSE r4
    IN  IF task_id = NoTask THEN r2 ELSE r5

create_image(R, i, task_id) ==
    LET item == IF task_id = NoTask THEN [annotation_count |-> 0]
                ELSE [annotation_count |-> 0, task_id |-> task_id]
        r1 == Then(R, Call("put_item", ImageKey(B, i), ""),
                   put_item(R.tb, ImageKey(B, i), item))
        r2 == adjust_block(r1, "image_count", 1)
        r3 == adjust_task(r2, task_id, 1)
        r4 == get_task(r3, task_id)
        r5 == IF r4.ok /\ create_image_approves(TaskOf(r4.tb, task_id))
              THEN adjust_block(r4, "approved_image_count", 1)
              ELSE r4
    IN  IF task_id = NoTask THEN r2 ELSE r5

\* approved_delta without the ("done", "done") arm
approved_delta_no_done_done(old_state, new_state, old_image_count) ==
    IF old_state = "done" THEN -old_image_count
    ELSE IF new_state = "done" THEN old_image_count
    ELSE 0

\* approved_delta that never subtracts
approved_delta_no_reopen(old_state, new_state, old_image_count) ==
    IF old_state = "done" THEN 0
    ELSE IF new_state = "done" THEN old_image_count
    ELSE 0

\* the approved_image_count delta of a task state change
approved_delta(old_state, new_state, old_image_count) ==
    IF old_state = "done" /\ new_state = "done" THEN 0
    ELSE IF old_state = "done" THEN -old_image_count
    ELSE IF new_state = "done" THEN old_image_count
    ELSE 0

\* the attributes an UpdateTaskPayload sets
task_assigns(payload) ==
    [a \in {x \in {"task_name", "task_state"} : payload[x] # NoneStr} |-> payload[a]]

\* update_task that writes the payload without reading the task first
update_task_blind_write(R, t, payload) ==
    get_task(Then(R, Call("update_item", TaskKey(B, t), "SET"),
                  update_item_set(R.tb, TaskKey(B, t), task_assigns(payload))), t)

update_task(R, t, payload) ==
    LET r1 == get_task(R, t)
        old == TaskOf(R.tb, t)
        assigns == task_assigns(payload)
        delta == IF payload.task_state = NoneStr THEN 0
                 ELSE approved_delta(old.task_state, payload.task_state, old.image_count)
        r2 == IF r1.ok /\ delta # 0
              THEN adjust_block(r1, "approved_image_count", delta) ELSE r1
        r3 == Then(r2, Call("update_item", TaskKey(B, t), "SET"),
                   update_item_set(r2.tb, TaskKey(B, t), assigns))
        r4 == IF r1.ok /\ DOMAIN assigns # {} THEN r3 ELSE r1
    IN  get_task(r4, t)

create_annotation(R, i, a) ==
    LET r1 == Then(R, Call("put_item", AnnotationKey(i, a), ""),
                   put_item(R.tb, AnnotationKey(i, a), [label_id |-> "l"]))
        r2 == adjust_block(r1, "annotation_count", 1)
    IN  adjust_image(r2, i, 1)

delete_annotation(R, i, a) ==
    LET r1 == Then(R, Call("delete_item", AnnotationKey(i, a), ""),
                   delete_item(R.tb, AnnotationKey(i, a)))
        r2 == adjust_block(r1, "annotation_count", -1)
    IN  adjust_image(r2, i, -1)

list_annotations(R, i) ==
    Then(R, Call("query", << <<"IMAGE#", i>>, <<"ANNOTATION#", 0>> >>, ""), StoreOk(R.tb))

\* delete_image's annotation loop that deletes nothing
delete_annotations_of_none(R, i, sks) == R

RECURSIVE delete_annotations_of(_, _, _)
delete_annotations_of(R, i, sks) ==
    IF sks = <<>> THEN R
    ELSE delete_annotations_of(delete_annotation(R, i, Head(sks)[2]), i, Tail(sks))

\* delete_image that deletes the Image row right after reading it
delete_image_row_first(R, i) ==
    LET r0 == get_image(R, i)
        image == ImageOf(R.tb, i)
        r1 == Then(r0, Call("delete_item", ImageKey(B, i), ""),
                   delete_item(r0.tb, ImageKey(B, i)))
        r2 == adjust_block(r1, "image_count", -1)
        r3 == adjust_task(r2, image.task_id, -1)
        r4 == get_task(r3, image.task_id)
        r5 == IF r4.ok /\ TaskOf(r4.tb, image.task_id).task_state = "done"
              THEN adjust_block(r4, "approved_image_count", -1)
              ELSE r4
        r6 == IF r0.ok /\ image.task_id # NoTask THEN r5 ELSE r2
        r7 == list_annotations(r6, i)
    IN  delete_annotations_of(r7, i, Query(r7.tb, <<"IMAGE#", i>>, "ANNOTATION#"))

delete_image(R, i) ==
    LET r1 == get_image(R, i)
        image == ImageOf(R.tb, i)
        r2 == adjust_block(r1, "image_count", -1)
        r3 == adjust_task(r2, image.task_id, -1)
        r4 == get_task(r3, image.task_id)
        r5 == IF r4.ok /\ TaskOf(r4.tb, image.task_id).task_state = "done"
              THEN adjust_block(r4, "approved_image_count", -1)
              ELSE r4
        r6 == IF r1.ok /\ image.task_id # NoTask THEN r5 ELSE r2
        r7 == list_annotations(r6, i)
        r8 == delete_annotations_of(r7, i, Query(r7.tb, <<"IMAGE#", i>>, "ANNOTATION#"))
    IN  Then(r8, Call("delete_item", ImageKey(B, i), ""),
             delete_item(r8.tb, ImageKey(B, i)))

\* load_images_for_task: the block's images, those of the task kept
load_images_for_task(tb, t) ==
    SelectSeq(Query(tb, <<"BLOCK#", B>>, "IMAGE#"),
              LAMBDA sk : ImageOf(tb, sk[2]).task_id = t)

\* delete_task's image loop that deletes nothing
delete_images_none(R, sks) == R

RECURSIVE delete_images(_, _)
delete_images(R, sks) ==
    IF sks = <<>> THEN R
    ELSE delete_images(delete_image(R, Head(sks)[2]), Tail(sks))

delete_task(R, t) ==
    LET r1 == Then(R, Call("query", << <<"BLOCK#", B>>, <<"IMAGE#", 0>> >>, ""), StoreOk(R.tb))
        r2 == delete_images(r1, load_images_for_task(R.tb, t))
    IN  Then(r2, Call("delete_item", TaskKey(B, t), ""),
             delete_item(r2.tb, TaskKey(B, t)))

\* update_image: the payload's fields (locked, order) are the attributes set
update_image(R, i, payload) ==
    LET r1 == IF DOMAIN payload # {}
              THEN Then(R, Call("update_item", ImageKey(B, i), "SET"),
                        update_item_set(R.tb, ImageKey(B, i), payload))
              ELSE R
    IN  get_image(r1, i)

\* the timestamp chrono::Utc::now() gives an update
Now == "now"

\* update_annotation: updated_at and the payload's fields (label_id, geometry) are
\* set in one update_item; nothing is read
update_annotation(R, i, a, payload) ==
    Then(R, Call("update_item", AnnotationKey(i, a), "SET"),
         update_item_set(R.tb, AnnotationKey(i, a), [updated_at |-> Now] @@ payload))

\* get_block: the row, then its labels and its type (fetch_labels_for_block)
get_block(R) ==
    LET r1 == Then(R, Call("get_item", BlockKey(B), ""),
                   IF Has(R.tb, BlockKey(B)) THEN StoreOk(R.tb)
                   ELSE StoreErr(R.tb, "Block not found"))
        r2 == Then(r1, Call("query", << <<"BLOCK#", B>>, <<"LABEL#", 0>> >>, ""),
                   StoreOk(r1.tb))
    IN  Then(r2, Call("get_item", BlockKey(B), "block_type"), StoreOk(r2.tb))

\* update_block: the payload's fields (block_name, block_state, block_locked)
update_block(R, payload) ==
    LET r1 == IF DOMAIN payload # {}
              THEN Then(R, Call("update_item", BlockKey(B), "SET"),
                        update_item_set(R.tb, BlockKey(B), payload))
              ELSE R
    IN  get_block(r1)

get_label(R, l) ==
    Then(R, Call("get_item", LabelKey(B, l), ""),
         IF Has(R.tb, LabelKey(B, l)) THEN StoreOk(R.tb)
         ELSE StoreErr(R.tb, " Label not found"))

\* the attribute that expr_names gives a field of UpdateLabelPayload
label_attribute(field) == IF field = "label_name" THEN "name" ELSE field

label_assigns(payload) ==
    [a \in {label_attribute(f) : f \in DOMAIN payload} |->
        payload[CHOOSE f \in DOMAIN payload : label_attribute(f) = a]]

update_label(R, l, payload) ==
    LET r1 == IF DOMAIN payload # {}
              THEN Then(R, Call("update_item", LabelKey(B, l), "SET"),
                        update_item_set(R.tb, LabelKey(B, l), label_assigns(payload)))
              ELSE R
    IN  get_label(r1, l)

----------------------------------------------------------------------------
(* Requests, one at a time *)

NoPayload == [task_name |-> NoneStr, task_state |-> NoneStr]

\* the UpdateTaskPayload values requests carry
TaskPayloads ==
    {NoPayload, [NoPayload EXCEPT !.task_name = "n"]}
    \cup {[NoPayload EXCEPT !.task_state = s] : s \in TaskStates}

Request(op, a, b, payload) == [op |-> op, a |-> a, b |-> b, payload |-> payload]

\* Request sequences followed from a new block.  "concrete" is the scenario
\* of the specification: create_task T; create_image I1 under T; update_task T
\* with task_state = "done"; delete_image I1.
SetState(st) == [NoPayload EXCEPT !.task_state = st]

Scenarios ==
    [concrete |-> << Request("create_task", 1, 0, NoPayload),
                     Request("create_image", 1, 1, NoPayload),
                     Request("update_task", 1, 0, SetState("done")),
                     Request("delete_image", 1, 0, NoPayload) >>,
     two_tasks |-> << Request("create_task", 1, 0, NoPayload),
                      Request("create_task", 2, 0, NoPayload),
                      Request("create_image", 1, 1, NoPayload),
                      Request("create_image", 2, 2, NoPayload),
                      Request("update_task", 1, 0, SetState("done")),
                      Request("update_task", 2, 0, SetState("in_progress")) >>,
     reopen    |-> << Request("create_task", 1, 0, NoPayload),
                      Request("create_image", 1, 1, NoPayload),
                      Request("create_image", 2, 1, NoPayload),
                      Request("update_task", 1, 0, SetState("done")),
                      Request("update_task", 1, 0, SetState("done")),
                      Request("update_task", 1, 0, SetState("todo")) >>,
     done_first |-> << Request("create_task", 1, 0, NoPayload),
                       Request("update_task", 1, 0, SetState("done")),
                       Request("create_image", 1, 1, NoPayload),
                       Request("create_image", 2, 0, NoPayload),
                       Request("delete_image", 1, 0, NoPayload) >>,
     drop_task |-> << Request("create_image", 1, 0, NoPayload),
                      Request("create_task", 1, 0, NoPayload),
                      Request("create_image", 2, 1, NoPayload),
                      Request("delete_image", 1, 0, NoPayload),
                      Request("delete_task", 1, 0, NoPayload) >>,
     annotate  |-> << Request("create_image", 1, 0, NoPayload),
                      Request("create_annotation", 1, 1, NoPayload),
                      Request("delete_image", 1, 0, NoPayload) >>]

\* script[k] = n: the run so far is exactly the first n requests of scenario k,
\* all successful; -1 once it is not
Followed(req, R) ==
    [k \in DOMAIN Scenarios |->
        IF script[k] >= 0 /\ script[k] < Len(Scenarios[k]) /\ R.ok
           /\ Scenarios[k][script[k] + 1] = req
        THEN script[k] + 1 ELSE -1]

\* the image counting a successful request has done: images created (n) and
\* images deleted (m) per task since the task was created, NoTask for images
\* without a task_id
Counted(req, R) ==
    IF ~R.ok THEN counted
    ELSE IF req.op = "create_image"
    THEN [counted EXCEPT ![req.b].n = @ + 1]
    ELSE IF req.op = "delete_image"
    THEN [counted EXCEPT ![ImageOf(table, req.a).task_id].m = @ + 1]
    ELSE IF req.op = "delete_task"
    THEN [counted EXCEPT ![req.a].m = @ + Len(load_images_for_task(table, req.a))]
    ELSE counted

\* a request completes: its effects on the table stay, its result is recorded.
\* A request that fails, or deletes an annotation that has no row, is taken
\* only while the run's budget of such requests lasts.
Respond(req, R) ==
    LET phantom == req.op = "delete_annotation" /\ ~Has(table, AnnotationKey(req.b, req.a))
    IN  /\ (~R.ok \/ phantom) => nFailed + nPhantom < budget
        /\ table' = R.tb
        /\ nFailed' = IF R.ok THEN nFailed ELSE nFailed + 1
        /\ nPhantom' = IF phantom THEN nPhantom + 1 ELSE nPhantom
        /\ script' = Followed(req, R)
        /\ counted' = Counted(req, R)
        /\ UNCHANGED <<budget, cascadeVars, last, race>>

CreateTask ==
    /\ nextId.task < MaxTasks
    /\ LET t == nextId.task + 1
       IN  /\ Respond(Request("create_task", t, 0, NoPayload),
                      create_task(Begin(table, NoFault), t))
           /\ nextId' = [nextId EXCEPT !.task = t]

CreateImage ==
    /\ nextId.image < MaxImages
    /\ \E task_id \in TaskIds \cup {NoTask} :
         LET i == nextId.image + 1
         IN  /\ Respond(Request("create_image", i, task_id, NoPayload),
                        create_image(Begin(table, NoFault), i, task_id))
             /\ nextId' = [nextId EXCEPT !.image = i]

UpdateTask ==
    \E t \in TaskIds, payload \in TaskPayloads :
        /\ Respond(Request("update_task", t, 0, payload),
                   update_task(Begin(table, NoFault), t, payload))
        /\ UNCHANGED nextId

DeleteImage ==
    \E i \in ImageIds :
        /\ Respond(Request("delete_image", i, 0, NoPayload),
                   delete_image(Begin(table, NoFault), i))
        /\ UNCHANGED nextId

DeleteTask ==
    \E t \in TaskIds :
        /\ Respond(Request("delete_task", t, 0, NoPayload),
                   delete_task(Begin(table, NoFault), t))
        /\ UNCHANGED nextId

CreateAnnotation ==
    /\ nextId.annotation < MaxAnnotations
    /\ \E i \in ImageIds :
         LET a == nextId.annotation + 1
         IN  /\ Respond(Request("create_annotation", a, i, NoPayload),
                        create_annotation(Begin(table, NoFault), i, a))
             /\ nextId' = [nextId EXCEPT !.annotation = a]

DeleteAnnotation ==
    \E i \in ImageIds, a \in AnnotationIds :
        /\ Respond(Request("delete_annotation", a, i, NoPayload),
                   delete_annotation(Begin(table, NoFault), i, a))
        /\ UNCHANGED nextId

\* the table after create_block: the block row with its three counters at 0
NewBlockTable == [k \in {BlockKey(B)} |-> BlockItem]

\* no request served under faults yet; no concurrent requests
NoRequest == [op |-> "none"]
NoRace == <<>>

Idle ==
    /\ pc = "idle" /\ delete_keys = <<>> /\ chunk = 0 /\ attempts = 0
    /\ unprocessed = <<>> /\ sent = {} /\ calln = 0 /\ outcome = <<>> /\ faults = 0
    /\ last = NoRequest /\ race = NoRace

InitRequests ==
    /\ table = NewBlockTable
    /\ nextId = [task |-> 0, image |-> 0, annotation |-> 0]
    /\ nFailed = 0
    /\ nPhantom = 0
    /\ counted = [t \in TaskIds \cup {NoTask} |-> [n |-> 0, m |-> 0]]
    /\ script = [k \in DOMAIN Scenarios |-> 0]
    /\ Idle
    /\ table0 = table

\* every request succeeds on rows that exist
Init == InitRequests /\ budget = 0

\* some requests fail, or delete annotations that have no row
InitAny == InitRequests /\ budget = MaxAnomalies

Next ==
    \/ CreateTask
    \/ CreateImage
    \/ UpdateTask
    \/ DeleteImage
    \/ DeleteTask
    \/ CreateAnnotation
    \/ DeleteAnnotation

Spec == Init /\ [][Next]_vars

SpecAny == InitAny /\ [][Next]_vars

----------------------------------------------------------------------------
(* delete_block: key collection *)

\* the keys of one batch_write_item request, and the attempts made per group
ChunkSize == 25
MaxAttempts == 5

\* "sleep(Duration::from_millis(100 * attempts))"
SleepMillis == 100

create_label(R, l) ==
    Then(R, Call("put_item", LabelKey(B, l), ""),
         put_item(R.tb, LabelKey(B, l), [label_name |-> "l"]))

add_delete_key(keys, pk, sk) == Append(keys, <<pk, sk>>)

\* "for item in result.items() { add_delete_key(delete_keys, pk, sk) }"
RECURSIVE add_items(_, _, _)
add_items(keys, pk, sks) ==
    IF sks = <<>> THEN keys
    ELSE add_items(add_delete_key(keys, pk, Head(sks)), pk, Tail(sks))

\* the query reads partition TASK#<task_id>
delete_task_images(tb, task_pk, keys) ==
    add_items(keys, task_pk, Query(tb, task_pk, "IMAGE#"))

\* "for task_pk in &task_pks { delete_task_images; add_delete_key(task_pk, task_pk) }"
RECURSIVE for_task_pks(_, _, _)
for_task_pks(tb, task_pks, keys) ==
    IF task_pks = <<>> THEN keys
    ELSE for_task_pks(tb, Tail(task_pks),
                      add_delete_key(delete_task_images(tb, Head(task_pks), keys),
                                     Head(task_pks), Head(task_pks)))

\* delete_tasks that collects no key for the Task rows themselves
delete_tasks_without_rows(tb, block_pk, keys) ==
    for_task_pks(tb, Query(tb, block_pk, "TASK#"), keys)

delete_tasks(tb, block_pk, keys) ==
    LET task_pks == Query(tb, block_pk, "TASK#")
    IN  for_task_pks(tb, task_pks, add_items(keys, block_pk, task_pks))

delete_labels(tb, block_pk, keys) ==
    add_items(keys, block_pk, Query(tb, block_pk, "LABEL#"))

delete_annotations(tb, image_pk, keys) ==
    add_items(keys, image_pk, Query(tb, image_pk, "ANNOTATION#"))

\* "for image_pk in &image_pks { delete_annotations; add_delete_key(image_pk, image_pk) }"
RECURSIVE for_image_pks(_, _, _)
for_image_pks(tb, image_pks, keys) ==
    IF image_pks = <<>> THEN keys
    ELSE for_image_pks(tb, Tail(image_pks),
                       add_delete_key(delete_annotations(tb, Head(image_pks), keys),
                                      Head(image_pks), Head(image_pks)))

delete_block_images(tb, block_pk, keys) ==
    LET image_pks == Query(tb, block_pk, "IMAGE#")
    IN  for_image_pks(tb, image_pks, add_items(keys, block_pk, image_pks))

\* delete_block_record that puts the block's key in front of the list
delete_block_record_first(block_id, keys) == <<BlockKey(block_id)>> \o keys

delete_block_record(block_id, keys) == Append(keys, BlockKey(block_id))

\* steps 1 to 4 of delete_block, when every query succeeds
collect_delete_keys(tb, block_id) ==
    LET block_pk == <<"BLOCK#", block_id>>
        k1 == delete_tasks(tb, block_pk, <<>>)
        k2 == delete_labels(tb, block_pk, k1)
        k3 == delete_block_images(tb, block_pk, k2)
    IN  delete_block_record(block_id, k3)

\* delete_keys.chunks(25) taking only the first group
chunks_first_only(keys) == IF keys = <<>> THEN 0 ELSE 1

\* delete_keys.chunks(25): the number of groups, and the c-th group
chunks(keys) == (Len(keys) + ChunkSize - 1) \div ChunkSize

\* chunk_at whose groups take one key more
chunk_at_one_more(keys, c) ==
    SubSeq(keys, (c - 1) * ChunkSize + 1,
           IF c * ChunkSize + 1 < Len(keys) THEN c * ChunkSize + 1 ELSE Len(keys))

chunk_at(keys, c) ==
    SubSeq(keys, (c - 1) * ChunkSize + 1,
           IF c * ChunkSize < Len(keys) THEN c * ChunkSize ELSE Len(keys))

----------------------------------------------------------------------------
(* delete_block: the store's answers to batch_write_item *)

\* Deleted that also counts the deleted rows out of the Block row's image_count
Deleted_and_counted(tb, reqs, p) ==
    [k \in DOMAIN tb \ {reqs[n] : n \in 1..p} |->
        IF k = BlockKey(B) /\ p > 0
        THEN [tb[k] EXCEPT !.image_count = 0]
        ELSE tb[k]]

\* the table after the store has deleted the first p keys of a request
Deleted(tb, reqs, p) ==
    [k \in DOMAIN tb \ {reqs[n] : n \in 1..p} |-> tb[k]]

\* how many of n requested deletes the store applies when it does not apply all
PartlyApplied(n) == {0, n \div 2}

Keys(reqs) == {reqs[n] : n \in 1..Len(reqs)}

----------------------------------------------------------------------------
(* delete_block: one action per phase and store call *)

Running(nkeys) ==
    [result |-> "running", error |-> "none", reported |-> FALSE, dropped |-> FALSE,
     collected |-> nkeys, sent |-> {}, left |-> <<>>, group |-> 0, purged |-> FALSE,
     purge_failed |-> FALSE, slept |-> 0]

\* the locals of a call that has returned
Returned ==
    /\ pc' = "idle"
    /\ delete_keys' = <<>>
    /\ chunk' = 0
    /\ attempts' = 0
    /\ unprocessed' = <<>>
    /\ sent' = {}

\* steps 1 to 4: every query answers
DeleteBlockCollect ==
    /\ pc = "idle"
    /\ calln < MaxCalls
    /\ LET keys == collect_delete_keys(table, B)
       IN  /\ delete_keys' = keys
           /\ chunk' = 1
           /\ attempts' = 0
           /\ unprocessed' = chunk_at(keys, 1)
           /\ outcome' = Append(outcome, Running(Len(keys)))
    /\ calln' = calln + 1
    /\ pc' = "batch"
    /\ sent' = {}
    /\ UNCHANGED <<table, table0, faults, requestVars>>

\* delete_block whose first group is deleted before a query errors
DeleteBlockQueryError_after_batch ==
    /\ faults < MaxFaults
    /\ pc = "idle"
    /\ calln < MaxCalls
    /\ calln' = calln + 1
    /\ table' = Deleted(table, chunk_at(collect_delete_keys(table, B), 1), 1)
    /\ outcome' = Append(outcome, [Running(0) EXCEPT !.result = "error",
                                                     !.error = "query", !.left = table'])
    /\ Returned
    /\ faults' = faults + 1
    /\ UNCHANGED <<table0, requestVars>>

\* steps 1 to 3: one of the queries errors, "?" returns the error
DeleteBlockQueryError ==
    /\ faults < MaxFaults
    /\ pc = "idle"
    /\ calln < MaxCalls
    /\ calln' = calln + 1
    /\ outcome' = Append(outcome, [Running(0) EXCEPT !.result = "error",
                                                     !.error = "query", !.left = table])
    /\ Returned
    /\ faults' = faults + 1
    /\ UNCHANGED <<table, table0, requestVars>>

\* the "for chunk in delete_keys.chunks(25)" loop moves on, or ends
NextChunk ==
    IF chunk < chunks(delete_keys)
    THEN /\ chunk' = chunk + 1
         /\ attempts' = 0
         /\ unprocessed' = chunk_at(delete_keys, chunk + 1)
         /\ pc' = "batch"
         /\ UNCHANGED delete_keys
    ELSE /\ pc' = "purge"
         /\ chunk' = 0
         /\ attempts' = 0
         /\ unprocessed' = <<>>
         /\ UNCHANGED delete_keys

\* batch_write_item applies every delete and reports nothing unprocessed
BatchProcessed ==
    /\ pc = "batch"
    /\ table' = Deleted(table, unprocessed, Len(unprocessed))
    /\ sent' = sent \cup Keys(unprocessed)
    /\ outcome' = [outcome EXCEPT ![calln].slept = 0]
    /\ NextChunk
    /\ UNCHANGED <<calln, table0, faults, requestVars>>

\* BatchRetry without the "attempts < 5" test
BatchRetry_unbounded ==
    /\ faults < MaxFaults
    /\ pc = "batch"
    /\ \E p \in PartlyApplied(Len(unprocessed)) :
          /\ table' = Deleted(table, unprocessed, p)
          /\ unprocessed' = SubSeq(unprocessed, p + 1, Len(unprocessed))
    /\ attempts' = attempts + 1
    /\ sent' = sent \cup Keys(unprocessed)
    /\ faults' = faults + 1
    /\ outcome' = [outcome EXCEPT ![calln].reported = TRUE,
                                  ![calln].slept = SleepMillis * (attempts + 1)]
    /\ UNCHANGED <<pc, delete_keys, chunk, calln, table0, requestVars>>

\* BatchRetry that sends the whole request again, not what was left unprocessed
BatchRetry_resends_request ==
    /\ faults < MaxFaults
    /\ pc = "batch"
    /\ attempts + 1 < MaxAttempts
    /\ \E p \in PartlyApplied(Len(unprocessed)) :
          /\ table' = Deleted(table, unprocessed, p)
          /\ unprocessed' = unprocessed
    /\ attempts' = attempts + 1
    /\ sent' = sent \cup Keys(unprocessed)
    /\ faults' = faults + 1
    /\ outcome' = [outcome EXCEPT ![calln].reported = TRUE,
                                  ![calln].slept = SleepMillis * (attempts + 1)]
    /\ UNCHANGED <<pc, delete_keys, chunk, calln, table0, requestVars>>

\* batch_write_item reports unprocessed items and attempts < 5: sleep, send them again
BatchRetry ==
    /\ faults < MaxFaults
    /\ pc = "batch"
    /\ attempts + 1 < MaxAttempts
    /\ \E p \in PartlyApplied(Len(unprocessed)) :
          /\ table' = Deleted(table, unprocessed, p)
          /\ unprocessed' = SubSeq(unprocessed, p + 1, Len(unprocessed))
    /\ attempts' = attempts + 1
    /\ sent' = sent \cup Keys(unprocessed)
    /\ faults' = faults + 1
    /\ outcome' = [outcome EXCEPT ![calln].reported = TRUE,
                                  ![calln].slept = SleepMillis * (attempts + 1)]
    /\ UNCHANGED <<pc, delete_keys, chunk, calln, table0, requestVars>>

\* batch_write_item reports unprocessed items on the fifth attempt: break
BatchDropped ==
    /\ faults < MaxFaults
    /\ pc = "batch"
    /\ attempts + 1 = MaxAttempts
    /\ \E p \in PartlyApplied(Len(unprocessed)) :
          table' = Deleted(table, unprocessed, p)
    /\ sent' = sent \cup Keys(unprocessed)
    /\ faults' = faults + 1
    /\ outcome' = [outcome EXCEPT ![calln].reported = TRUE, ![calln].dropped = TRUE,
                                  ![calln].slept = 0]
    /\ NextChunk
    /\ UNCHANGED <<calln, table0, requestVars>>

\* BatchError after which the remaining groups are still sent
BatchError_goes_on ==
    /\ faults < MaxFaults
    /\ pc = "batch"
    /\ \E p \in PartlyApplied(Len(unprocessed)) :
          /\ table' = Deleted(Deleted(table, unprocessed, p),
                              delete_keys, Len(delete_keys))
          /\ outcome' = [outcome EXCEPT ![calln].result = "error", ![calln].error = "batch",
                                        ![calln].group = chunk, ![calln].slept = 0,
                                        ![calln].sent = sent \cup Keys(delete_keys),
                                        ![calln].left = table']
    /\ Returned
    /\ faults' = faults + 1
    /\ UNCHANGED <<calln, table0, requestVars>>

\* batch_write_item errors, "?" returns the error
BatchError ==
    /\ faults < MaxFaults
    /\ pc = "batch"
    /\ \E p \in PartlyApplied(Len(unprocessed)) :
          /\ table' = Deleted(table, unprocessed, p)
          /\ outcome' = [outcome EXCEPT ![calln].result = "error", ![calln].error = "batch",
                                        ![calln].group = chunk, ![calln].slept = 0,
                                        ![calln].sent = sent \cup Keys(unprocessed),
                                        ![calln].left = table']
    /\ Returned
    /\ faults' = faults + 1
    /\ UNCHANGED <<calln, table0, requestVars>>

\* step 6 and the 204 response: delete_s3_prefix(..).ok() cannot fail the call
PurgeAndReturn ==
    /\ pc = "purge"
    /\ outcome' = [outcome EXCEPT ![calln].result = "ok", ![calln].sent = sent,
                                  ![calln].left = table, ![calln].purged = TRUE]
    /\ Returned
    /\ UNCHANGED <<table, calln, table0, faults, requestVars>>

\* PurgeFailsAndReturn that hands the purge's error on with "?"
PurgeFailsAndReturn_propagates ==
    /\ faults < MaxFaults
    /\ pc = "purge"
    /\ outcome' = [outcome EXCEPT ![calln].result = "error", ![calln].error = "purge",
                                  ![calln].sent = sent, ![calln].left = table,
                                  ![calln].purged = TRUE, ![calln].purge_failed = TRUE]
    /\ Returned
    /\ faults' = faults + 1
    /\ UNCHANGED <<table, calln, table0, requestVars>>

\* step 6 when list_objects_v2 errors (delete_s3_prefix returns Err) or
\* delete_objects errors (result dropped by "let _ ="): .ok() discards it, 204
PurgeFailsAndReturn ==
    /\ faults < MaxFaults
    /\ pc = "purge"
    /\ outcome' = [outcome EXCEPT ![calln].result = "ok", ![calln].sent = sent,
                                  ![calln].left = table, ![calln].purged = TRUE,
                                  ![calln].purge_failed = TRUE]
    /\ Returned
    /\ faults' = faults + 1
    /\ UNCHANGED <<table, calln, table0, requestVars>>

\* a block with nT tasks, nL labels, nI images (image i under task i % (nT + 1),
\* 0 being no task) and nA annotations per image: the rows and counters that
\* create_task, create_label, create_image and create_annotation leave
PopulatedKeys(nT, nL, nI, nA) ==
    {BlockKey(B)} \cup {TaskKey(B, t) : t \in 1..nT} \cup {LabelKey(B, l) : l \in 1..nL}
        \cup {ImageKey(B, i) : i \in 1..nI}
        \cup {AnnotationKey(ia[1], ia[2]) : ia \in (1..nI) \X (1..nA)}

PopulatedItem(key, nT, nI, nA) ==
    LET id == key[2][2]
        task_id == id % (nT + 1)
    IN  CASE key[2][1] = "BLOCK#" ->
                [image_count |-> nI, approved_image_count |-> 0,
                 annotation_count |-> nI * nA]
          [] key[2][1] = "TASK#" ->
                [task_name |-> "n", task_state |-> "todo",
                 image_count |-> Cardinality({i \in 1..nI : i % (nT + 1) = id})]
          [] key[2][1] = "LABEL#" -> [label_name |-> "l"]
          [] key[2][1] = "IMAGE#" ->
                IF task_id = NoTask THEN [annotation_count |-> nA]
                ELSE [annotation_count |-> nA, task_id |-> task_id]
          [] OTHER -> [label_id |-> "l"]

Populated(nT, nL, nI, nA) ==
    [key \in PopulatedKeys(nT, nL, nI, nA) |-> PopulatedItem(key, nT, nI, nA)]

InitCascade ==
    /\ \E nT \in 0..CascTasks, nL \in 0..CascLabels, nI \in 0..CascImages,
          nA \in 0..CascAnnotations :
          /\ table = Populated(nT, nL, nI, nA)
          /\ nextId = [task |-> nT, image |-> nI, annotation |-> nA]
    /\ nFailed = 0
    /\ nPhantom = 0
    /\ budget = 0
    /\ counted = [t \in TaskIds \cup {NoTask} |-> [n |-> 0, m |-> 0]]
    /\ script = [k \in DOMAIN Scenarios |-> -1]
    /\ Idle
    /\ table0 = table

NextCascade ==
    \/ DeleteBlockCollect
    \/ DeleteBlockQueryError
    \/ BatchProcessed
    \/ BatchRetry
    \/ BatchDropped
    \/ BatchError
    \/ PurgeAndReturn
    \/ PurgeFailsAndReturn

SpecCascade == InitCascade /\ [][NextCascade]_vars

----------------------------------------------------------------------------
(* One request against a populated block, with the store failing at one of  *)
(* the request's calls or at none                                           *)

\* the largest block such a request is served on
FaultTasks == 2
FaultImages == 3
FaultAnnotations == 2
FaultLabels == 1

\* the UpdateImagePayload values: any of locked and order present
ImagePayloads ==
    {[x \in {} |-> TRUE], [locked |-> TRUE], [order |-> 1], [locked |-> TRUE, order |-> 1]}

\* tasks 1..d of a populated block moved to "done" by update_task
BlockPayloads ==
    {[x \in {} |-> TRUE], [block_name |-> "b2"], [block_state |-> "s2"],
     [block_locked |-> TRUE],
     [block_name |-> "b2", block_state |-> "s2", block_locked |-> TRUE]}

LabelPayloads ==
    {[x \in {} |-> TRUE], [label_name |-> "l2"], [label_color |-> "c2"],
     [label_properties |-> "p2"], [label_name |-> "l2", label_color |-> "c2"]}

AnnotationPayloads ==
    {[x \in {} |-> TRUE], [label_id |-> "l2"], [geometry |-> "g2"],
     [label_id |-> "l2", geometry |-> "g2"]}

RECURSIVE MarkDone(_, _)
MarkDone(tb, d) ==
    IF d = 0 THEN tb
    ELSE update_task(Begin(MarkDone(tb, d - 1), NoFault), d, SetState("done")).tb

\* the calls at which the store can fail a request: none, or one of those it issues
FaultsOf(R) == 0..Len(R.calls)

\* the request is served: its effects so far stay in the table, its result is noted
Serve(op, a, b, payload, R) ==
    /\ last = NoRequest
    /\ table' = R.tb
    /\ last' = [op |-> op, a |-> a, b |-> b, payload |-> payload, fault |-> R.fault,
                ok |-> R.ok, err |-> R.err, calls |-> R.calls]
    /\ UNCHANGED <<nextId, nFailed, nPhantom, budget, counted, script, cascadeVars, race>>

ServeCreateTask ==
    /\ last = NoRequest
    /\ \E t \in {nextId.task + 1} :
        \E fault \in FaultsOf(create_task(Begin(table, NoFault), t)) :
            Serve("create_task", t, 0, <<>>, create_task(Begin(table, fault), t))

ServeCreateImage ==
    /\ last = NoRequest
    /\ \E task_id \in (1..FaultTasks) \cup {NoTask} :
        \E fault \in FaultsOf(create_image(Begin(table, NoFault), nextId.image + 1, task_id)) :
            Serve("create_image", nextId.image + 1, task_id, <<>>,
                  create_image(Begin(table, fault), nextId.image + 1, task_id))

ServeUpdateTask ==
    /\ last = NoRequest
    /\ \E t \in 1..FaultTasks, payload \in TaskPayloads :
        \E fault \in FaultsOf(update_task(Begin(table, NoFault), t, payload)) :
            Serve("update_task", t, 0, payload, update_task(Begin(table, fault), t, payload))

ServeUpdateImage ==
    /\ last = NoRequest
    /\ \E i \in 1..FaultImages, payload \in ImagePayloads :
        \E fault \in FaultsOf(update_image(Begin(table, NoFault), i, payload)) :
            Serve("update_image", i, 0, payload, update_image(Begin(table, fault), i, payload))

ServeDeleteImage ==
    /\ last = NoRequest
    /\ \E i \in 1..FaultImages :
        \E fault \in FaultsOf(delete_image(Begin(table, NoFault), i)) :
            Serve("delete_image", i, 0, <<>>, delete_image(Begin(table, fault), i))

ServeDeleteTask ==
    /\ last = NoRequest
    /\ \E t \in 1..FaultTasks :
        \E fault \in FaultsOf(delete_task(Begin(table, NoFault), t)) :
            Serve("delete_task", t, 0, <<>>, delete_task(Begin(table, fault), t))

ServeCreateAnnotation ==
    /\ last = NoRequest
    /\ \E i \in 1..FaultImages :
        \E fault \in FaultsOf(create_annotation(Begin(table, NoFault), i, nextId.annotation + 1)) :
            Serve("create_annotation", nextId.annotation + 1, i, <<>>,
                  create_annotation(Begin(table, fault), i, nextId.annotation + 1))

ServeDeleteAnnotation ==
    /\ last = NoRequest
    /\ \E i \in 1..FaultImages, a \in 1..FaultAnnotations :
        \E fault \in FaultsOf(delete_annotation(Begin(table, NoFault), i, a)) :
            Serve("delete_annotation", a, i, <<>>, delete_annotation(Begin(table, fault), i, a))

ServeUpdateBlock ==
    /\ last = NoRequest
    /\ \E payload \in BlockPayloads :
        \E fault \in FaultsOf(update_block(Begin(table, NoFault), payload)) :
            Serve("update_block", B, 0, payload, update_block(Begin(table, fault), payload))

ServeUpdateLabel ==
    /\ last = NoRequest
    /\ \E l \in 1..FaultLabels, payload \in LabelPayloads :
        \E fault \in FaultsOf(update_label(Begin(table, NoFault), l, payload)) :
            Serve("update_label", l, 0, payload,
                  update_label(Begin(table, fault), l, payload))

ServeUpdateAnnotation ==
    /\ last = NoRequest
    /\ \E i \in 1..FaultImages, a \in 1..FaultAnnotations, payload \in AnnotationPayloads :
        \E fault \in FaultsOf(update_annotation(Begin(table, NoFault), i, a, payload)) :
            Serve("update_annotation", a, i, payload,
                  update_annotation(Begin(table, fault), i, a, payload))

InitFault ==
    /\ \E nT \in 0..FaultTasks, nI \in 0..FaultImages, nA \in 0..FaultAnnotations,
          nL \in 0..FaultLabels :
          \E d \in 0..nT :
              /\ table = MarkDone(Populated(nT, nL, nI, nA), d)
              /\ nextId = [task |-> nT, image |-> nI, annotation |-> nA]
    /\ nFailed = 0
    /\ nPhantom = 0
    /\ budget = 0
    /\ counted = [t \in TaskIds \cup {NoTask} |-> [n |-> 0, m |-> 0]]
    /\ script = [k \in DOMAIN Scenarios |-> -1]
    /\ Idle
    /\ table0 = table

NextFault ==
    \/ ServeCreateTask
    \/ ServeCreateImage
    \/ ServeUpdateTask
    \/ ServeUpdateImage
    \/ ServeDeleteImage
    \/ ServeDeleteTask
    \/ ServeCreateAnnotation
    \/ ServeDeleteAnnotation
    \/ ServeUpdateBlock
    \/ ServeUpdateLabel
    \/ ServeUpdateAnnotation

SpecFault == InitFault /\ [][NextFault]_vars

----------------------------------------------------------------------------
(* Two concurrent requests: each store call of a request is one step, and  *)
(* the calls of the two requests interleave freely.  A request's locals    *)
(* (the task or image it has read, the annotations still to delete) are    *)
(* kept in its entry of race.                                              *)

RaceImages == 2
RaceAnnotations == 1

NoTaskRead == [task_state |-> "", image_count |-> 0]

Proc(op, a, b, payload) ==
    [op |-> op, a |-> a, b |-> b, payload |-> payload, pc |-> "start", err |-> "",
     task |-> NoTaskRead, todo |-> <<>>]

\* the answer of one store call issued on the shared table
One(tb) == Begin(tb, NoFault)

\* a store call returns: the request goes on as proc, or "?" returns the error
Step(p, r, proc) ==
    /\ table' = r.tb
    /\ race' = [race EXCEPT ![p] = IF r.ok THEN proc
                                   ELSE [@ EXCEPT !.pc = "failed", !.err = r.err]]
    /\ UNCHANGED <<nextId, nFailed, nPhantom, budget, counted, script, cascadeVars, last>>

At(p, op, pcv) == race[p].op = op /\ race[p].pc = pcv

CreateImagePut ==
    \E p \in DOMAIN race :
        /\ At(p, "create_image", "start")
        /\ LET me == race[p]
               item == IF me.b = NoTask THEN [annotation_count |-> 0]
                       ELSE [annotation_count |-> 0, task_id |-> me.b]
           IN  Step(p, Then(One(table), Call("put_item", ImageKey(B, me.a), ""),
                            put_item(table, ImageKey(B, me.a), item)),
                    [me EXCEPT !.pc = "block_count"])

CreateImageBlockCount ==
    \E p \in DOMAIN race :
        /\ At(p, "create_image", "block_count")
        /\ Step(p, adjust_block(One(table), "image_count", 1),
                [race[p] EXCEPT !.pc = IF race[p].b = NoTask THEN "returned"
                                       ELSE "task_count"])

\* the task counter written from the count the task had when the requests started
CreateImageTaskCount_overwrite ==
    \E p \in DOMAIN race :
        /\ At(p, "create_image", "task_count")
        /\ Step(p, Then(One(table), Call("update_item", TaskKey(B, race[p].b), "image_count"),
                        update_item_set(table, TaskKey(B, race[p].b),
                            [image_count |-> table0[TaskKey(B, race[p].b)].image_count + 1])),
                [race[p] EXCEPT !.pc = "get_task"])

CreateImageTaskCount ==
    \E p \in DOMAIN race :
        /\ At(p, "create_image", "task_count")
        /\ Step(p, adjust_task(One(table), race[p].b, 1),
                [race[p] EXCEPT !.pc = "get_task"])

CreateImageGetTask ==
    \E p \in DOMAIN race :
        /\ At(p, "create_image", "get_task")
        /\ LET r == get_task(One(table), race[p].b)
               task == IF r.ok THEN TaskOf(table, race[p].b) ELSE NoTaskRead
           IN  Step(p, r, [race[p] EXCEPT !.task = task,
                                          !.pc = IF create_image_approves(task)
                                                 THEN "approved" ELSE "returned"])

CreateImageApproved ==
    \E p \in DOMAIN race :
        /\ At(p, "create_image", "approved")
        /\ Step(p, adjust_block(One(table), "approved_image_count", 1),
                [race[p] EXCEPT !.pc = "returned"])

\* the approved_image_count delta of an update_task, from the task it has read
RaceDelta(me) ==
    IF me.payload.task_state = NoneStr THEN 0
    ELSE approved_delta(me.task.task_state, me.payload.task_state, me.task.image_count)

UpdateTaskGet ==
    \E p \in DOMAIN race :
        /\ At(p, "update_task", "start")
        /\ LET r == get_task(One(table), race[p].a)
               old == IF r.ok THEN TaskOf(table, race[p].a) ELSE NoTaskRead
               me == [race[p] EXCEPT !.task = old]
           IN  Step(p, r, [me EXCEPT !.pc = IF DOMAIN task_assigns(me.payload) = {}
                                            THEN "reread"
                                            ELSE IF RaceDelta(me) # 0 THEN "approved"
                                            ELSE "set"])

UpdateTaskApproved ==
    \E p \in DOMAIN race :
        /\ At(p, "update_task", "approved")
        /\ Step(p, adjust_block(One(table), "approved_image_count", RaceDelta(race[p])),
                [race[p] EXCEPT !.pc = "set"])

UpdateTaskSet ==
    \E p \in DOMAIN race :
        /\ At(p, "update_task", "set")
        /\ Step(p, Then(One(table), Call("update_item", TaskKey(B, race[p].a), "SET"),
                        update_item_set(table, TaskKey(B, race[p].a),
                                        task_assigns(race[p].payload))),
                [race[p] EXCEPT !.pc = "reread"])

UpdateTaskReread ==
    \E p \in DOMAIN race :
        /\ At(p, "update_task", "reread")
        /\ Step(p, get_task(One(table), race[p].a), [race[p] EXCEPT !.pc = "returned"])

DeleteImageGet ==
    \E p \in DOMAIN race :
        /\ At(p, "delete_image", "start")
        /\ LET r == get_image(One(table), race[p].a)
               task_id == IF r.ok THEN ImageOf(table, race[p].a).task_id ELSE NoTask
           IN  Step(p, r, [race[p] EXCEPT !.b = task_id, !.pc = "block_count"])

DeleteImageBlockCount ==
    \E p \in DOMAIN race :
        /\ At(p, "delete_image", "block_count")
        /\ Step(p, adjust_block(One(table), "image_count", -1),
                [race[p] EXCEPT !.pc = IF race[p].b = NoTask THEN "list" ELSE "task_count"])

DeleteImageTaskCount ==
    \E p \in DOMAIN race :
        /\ At(p, "delete_image", "task_count")
        /\ Step(p, adjust_task(One(table), race[p].b, -1),
                [race[p] EXCEPT !.pc = "get_task"])

DeleteImageGetTask ==
    \E p \in DOMAIN race :
        /\ At(p, "delete_image", "get_task")
        /\ LET r == get_task(One(table), race[p].b)
               task == IF r.ok THEN TaskOf(table, race[p].b) ELSE NoTaskRead
           IN  Step(p, r, [race[p] EXCEPT !.task = task,
                                          !.pc = IF task.task_state = "done"
                                                 THEN "approved" ELSE "list"])

DeleteImageApproved ==
    \E p \in DOMAIN race :
        /\ At(p, "delete_image", "approved")
        /\ Step(p, adjust_block(One(table), "approved_image_count", -1),
                [race[p] EXCEPT !.pc = "list"])

DeleteImageList ==
    \E p \in DOMAIN race :
        /\ At(p, "delete_image", "list")
        /\ LET todo == Query(table, <<"IMAGE#", race[p].a>>, "ANNOTATION#")
           IN  Step(p, list_annotations(One(table), race[p].a),
                    [race[p] EXCEPT !.todo = todo,
                                    !.pc = IF todo = <<>> THEN "row" ELSE "annotation"])

DeleteAnnotationRow ==
    \E p \in DOMAIN race :
        /\ At(p, "delete_image", "annotation")
        /\ LET key == AnnotationKey(race[p].a, Head(race[p].todo)[2])
           IN  Step(p, Then(One(table), Call("delete_item", key, ""), delete_item(table, key)),
                    [race[p] EXCEPT !.pc = "annotation_block"])

DeleteAnnotationBlockCount ==
    \E p \in DOMAIN race :
        /\ At(p, "delete_image", "annotation_block")
        /\ Step(p, adjust_block(One(table), "annotation_count", -1),
                [race[p] EXCEPT !.pc = "annotation_image"])

DeleteAnnotationImageCount ==
    \E p \in DOMAIN race :
        /\ At(p, "delete_image", "annotation_image")
        /\ Step(p, adjust_image(One(table), race[p].a, -1),
                [race[p] EXCEPT !.todo = Tail(@),
                                !.pc = IF Tail(race[p].todo) = <<>> THEN "row"
                                       ELSE "annotation"])

DeleteImageRow ==
    \E p \in DOMAIN race :
        /\ At(p, "delete_image", "row")
        /\ Step(p, Then(One(table), Call("delete_item", ImageKey(B, race[p].a), ""),
                        delete_item(table, ImageKey(B, race[p].a))),
                [race[p] EXCEPT !.pc = "returned"])

\* the pairs of requests that run concurrently, on a block with nI images
RacePairs(nI) ==
    {<<Proc("create_image", nI + 1, t1, <<>>), Proc("create_image", nI + 2, t2, <<>>)>> :
        t1 \in {1}, t2 \in {1, NoTask}}
    \cup {<<Proc("update_task", 1, 0, payload), Proc("create_image", nI + 1, 1, <<>>)>> :
             payload \in TaskPayloads}
    \cup {<<Proc("update_task", 1, 0, pi[1]), Proc("delete_image", pi[2], NoTask, <<>>)>> :
             pi \in TaskPayloads \X (1..nI)}
    \cup {<<Proc("delete_image", i, NoTask, <<>>), Proc("delete_image", i, NoTask, <<>>)>> :
             i \in 1..nI}
    \cup {<<Proc("update_task", 1, 0, SetState("done")),
             Proc("update_task", 1, 0, SetState("done"))>>}

\* one task, todo or done, images 1..nI (the odd ones under the task) with nA
\* annotations each, and two requests about to start
InitRace ==
    /\ \E nI \in 0..RaceImages, nA \in 0..RaceAnnotations, d \in 0..1 :
          /\ table = MarkDone(Populated(1, 0, nI, nA), d)
          /\ nextId = [task |-> 1, image |-> nI, annotation |-> nA]
          /\ race \in RacePairs(nI)
    /\ nFailed = 0
    /\ nPhantom = 0
    /\ budget = 0
    /\ counted = [t \in TaskIds \cup {NoTask} |-> [n |-> 0, m |-> 0]]
    /\ script = [k \in DOMAIN Scenarios |-> -1]
    /\ pc = "idle" /\ delete_keys = <<>> /\ chunk = 0 /\ attempts = 0
    /\ unprocessed = <<>> /\ sent = {} /\ calln = 0 /\ outcome = <<>> /\ faults = 0
    /\ last = NoRequest
    /\ table0 = table

NextRace ==
    \/ CreateImagePut
    \/ CreateImageBlockCount
    \/ CreateImageTaskCount
    \/ CreateImageGetTask
    \/ CreateImageApproved
    \/ UpdateTaskGet
    \/ UpdateTaskApproved
    \/ UpdateTaskSet
    \/ UpdateTaskReread
    \/ DeleteImageGet
    \/ DeleteImageBlockCount
    \/ DeleteImageTaskCount
    \/ DeleteImageGetTask
    \/ DeleteImageApproved
    \/ DeleteImageList
    \/ DeleteAnnotationRow
    \/ DeleteAnnotationBlockCount
    \/ DeleteAnnotationImageCount
    \/ DeleteImageRow

SpecRace == InitRace /\ [][NextRace]_vars

----------------------------------------------------------------------------
(* The list views: images of a block, tasks with their images, labels.     *)
(* An Option is <<>> for None and <<v>> for Some(v).                       *)

ListImages == 3
ListTasks == 2
ListLabels == 3
MaxOrder == 2

\* cmp of two integers
int_cmp(a, b) == IF a < b THEN "Less" ELSE IF a > b THEN "Greater" ELSE "Equal"

\* the closure that images.sort_by is given: by order, None last
order_cmp(a, b) ==
    CASE a.order # <<>> /\ b.order # <<>> -> int_cmp(a.order[1], b.order[1])
      [] a.order # <<>> /\ b.order = <<>> -> "Less"
      [] a.order = <<>> /\ b.order # <<>> -> "Greater"
      [] OTHER -> "Equal"

FLOOR_PLAN_ORDER ==
    <<"fp-outside", "fp-inside", "ewalls", "windows", "iwalls", "doors", "cav-slider",
      "stairs", "robes", "toilet", "vanity", "shower", "bathtub", "sink", "outbuilding",
      "scale", "dims", "area", "title", "legend">>

ELEVATION_ORDER ==
    <<"gf-wall", "gf-window", "gf-roof", "ff-wall", "ff-window", "ff-roof", "sf-wall",
      "sf-window", "sf-roof", "skylight", "fence", "dims", "area", "title", "legend">>

ELECTRICAL_PLAN_ORDER == <<"downlight", "gpo-single", "gpo-double">>

ROOF_PLAN_ORDER == <<"box-gutter">>

\* position of label_name in the block type's list, None when there is none
order_index_for(block_type, label_name) ==
    LET list == CASE block_type = "floor" -> FLOOR_PLAN_ORDER
                  [] block_type = "elevation" -> ELEVATION_ORDER
                  [] block_type = "electrical" -> ELECTRICAL_PLAN_ORDER
                  [] block_type = "roof" -> ROOF_PLAN_ORDER
                  [] OTHER -> <<>>
        at == {n \in 1..Len(list) : list[n] = label_name}
    IN  IF at = {} THEN <<>>
        ELSE <<(CHOOSE n \in at : \A m \in at : n <= m) - 1>>

\* the label names that rows carry here, each with its bytes
NameBytes ==
    [legend     |-> <<108, 101, 103, 101, 110, 100>>,
     fp_outside |-> <<102, 112, 45, 111, 117, 116, 115, 105, 100, 101>>,
     dims       |-> <<100, 105, 109, 115>>,
     downlight  |-> <<100, 111, 119, 110, 108, 105, 103, 104, 116>>,
     box_gutter |-> <<98, 111, 120, 45, 103, 117, 116, 116, 101, 114>>,
     gf_wall    |-> <<103, 102, 45, 119, 97, 108, 108>>,
     custom_x   |-> <<99, 117, 115, 116, 111, 109, 45, 120>>,
     Zone       |-> <<90, 111, 110, 101>>]

NameText ==
    [legend |-> "legend", fp_outside |-> "fp-outside", dims |-> "dims",
     downlight |-> "downlight", box_gutter |-> "box-gutter", gf_wall |-> "gf-wall",
     custom_x |-> "custom-x", Zone |-> "Zone"]

LabelNames == {NameText[k] : k \in DOMAIN NameText}

Bytes(name) == NameBytes[CHOOSE k \in DOMAIN NameText : NameText[k] = name]

\* str::cmp: lexicographic on the bytes
RECURSIVE bytes_cmp(_, _)
bytes_cmp(x, y) ==
    IF x = <<>> /\ y = <<>> THEN "Equal"
    ELSE IF x = <<>> THEN "Less"
    ELSE IF y = <<>> THEN "Greater"
    ELSE IF Head(x) # Head(y) THEN int_cmp(Head(x), Head(y))
    ELSE bytes_cmp(Tail(x), Tail(y))

str_cmp(a, b) == bytes_cmp(Bytes(a), Bytes(b))

\* label_cmp that compares the names whatever the block type's list says
label_cmp_by_name(block_type, a, b) == str_cmp(a.label_name, b.label_name)

\* the closure that labels.sort_by is given
label_cmp(block_type, a, b) ==
    LET a_idx == order_index_for(block_type, a.label_name)
        b_idx == order_index_for(block_type, b.label_name)
    IN  CASE a_idx # <<>> /\ b_idx # <<>> -> int_cmp(a_idx[1], b_idx[1])
          [] a_idx # <<>> /\ b_idx = <<>> -> "Less"
          [] a_idx = <<>> /\ b_idx # <<>> -> "Greater"
          [] OTHER -> str_cmp(a.label_name, b.label_name)

\* tasks.sort_by(|a, b| b.created_at.cmp(&a.created_at))
created_desc_cmp(a, b) == int_cmp(b.created_at, a.created_at)

\* the comparator a sort is given
Compare(by, a, b) ==
    CASE by.key = "order" -> order_cmp(a, b)
      [] by.key = "label" -> label_cmp(by.block_type, a, b)
      [] OTHER -> created_desc_cmp(a, b)

\* an insertion that takes x to the very front
insert_sorted_front(by, s, x) == <<x>> \o s

\* x placed behind every element that does not compare greater than x
RECURSIVE insert_sorted(_, _, _)
insert_sorted(by, s, x) ==
    IF s = <<>> THEN <<x>>
    ELSE IF Compare(by, x, Head(s)) = "Less" THEN <<x>> \o s
    ELSE <<Head(s)>> \o insert_sorted(by, Tail(s), x)

\* slice::sort_by: a stable sort
RECURSIVE sort_by(_, _)
sort_by(by, s) ==
    IF s = <<>> THEN <<>>
    ELSE insert_sorted(by, sort_by(by, SubSeq(s, 1, Len(s) - 1)), s[Len(s)])

\* the Image built from a queried item
ImageRow(tb, sk) ==
    LET item == tb[<< <<"BLOCK#", B>>, sk >>]
    IN  [image_id |-> sk[2],
         task_id |-> IF "task_id" \in DOMAIN item THEN <<item.task_id>> ELSE <<>>,
         order |-> IF "order" \in DOMAIN item THEN <<item.order>> ELSE <<>>]

\* the images in the order the query returns them
queried_images(tb) ==
    LET q == Query(tb, <<"BLOCK#", B>>, "IMAGE#")
    IN  [n \in 1..Len(q) |-> ImageRow(tb, q[n])]

load_images_for_block(tb) == sort_by([key |-> "order"], queried_images(tb))

\* the Task built from a queried item, images empty
TaskRow(tb, sk) ==
    LET item == tb[<< <<"BLOCK#", B>>, sk >>]
    IN  [task_id |-> sk[2], created_at |-> item.created_at, images |-> <<>>]

load_tasks_for_block(tb) ==
    LET q == Query(tb, <<"BLOCK#", B>>, "TASK#")
    IN  [n \in 1..Len(q) |-> TaskRow(tb, q[n])]

\* the grouping that hands every task all the images
images_by_task_all(images, task_id) == IF images = <<>> THEN <<>> ELSE <<images>>

\* images_by_task.get(task_id) after the grouping loop: None when no image has it
images_by_task(images, task_id) ==
    LET group == SelectSeq(images, LAMBDA img : img.task_id = <<task_id>>)
    IN  IF group = <<>> THEN <<>> ELSE <<group>>

\* blocks/annotations list_block_tasks: the body of the 200 response
list_block_tasks(tb) ==
    LET task_rows == load_tasks_for_block(tb)
        image_rows == load_images_for_block(tb)
        filled == [n \in 1..Len(task_rows) |->
                     LET group == images_by_task(image_rows, task_rows[n].task_id)
                     IN  [task_rows[n] EXCEPT
                            !.images = IF group = <<>> THEN <<>> ELSE group[1]]]
    IN  sort_by([key |-> "created_at"], filled)

\* atoms tasks/http list_block_tasks: each group sorted again, tasks in query order
list_block_tasks_http(tb) ==
    LET tasks == load_tasks_for_block(tb)
        images == load_images_for_block(tb)
    IN  [n \in 1..Len(tasks) |->
            LET group == images_by_task(images, tasks[n].task_id)
            IN  IF group = <<>> THEN tasks[n]
                ELSE [tasks[n] EXCEPT !.images = sort_by([key |-> "order"], group[1])]]

\* the Label built from a queried item
LabelRow(tb, sk) ==
    [label_id |-> sk[2], label_name |-> tb[<< <<"BLOCK#", B>>, sk >>].label_name]

queried_labels(tb) ==
    LET q == Query(tb, <<"BLOCK#", B>>, "LABEL#")
    IN  [n \in 1..Len(q) |-> LabelRow(tb, q[n])]

get_block_type(tb) ==
    IF Has(tb, BlockKey(B)) /\ "block_type" \in DOMAIN tb[BlockKey(B)]
    THEN <<tb[BlockKey(B)].block_type>> ELSE <<>>

fetch_labels_for_block(tb) ==
    LET labels == queried_labels(tb)
        block_type == get_block_type(tb)
    IN  IF block_type # <<>>
        THEN sort_by([key |-> "label", block_type |-> block_type[1]], labels)
        ELSE labels

BlockTypes == {"floor", "elevation", "electrical", "roof", "site"}

\* the rows of nT tasks (the oldest first, or the newest first) and of images
\* with the given task ids and orders (0 for none)
ImageTable(nT, newest_first, task_ids, orders) ==
    LET keys == {BlockKey(B)} \cup {TaskKey(B, t) : t \in 1..nT}
                    \cup {ImageKey(B, i) : i \in 1..Len(orders)}
        item(key) ==
            LET id == key[2][2]
            IN  CASE key[2][1] = "BLOCK#" ->
                        [block_type |-> "floor", image_count |-> Len(orders),
                         approved_image_count |-> 0, annotation_count |-> 0]
                  [] key[2][1] = "TASK#" ->
                        [task_name |-> "n", task_state |-> "todo",
                         created_at |-> IF newest_first THEN nT + 1 - id ELSE id,
                         image_count |-> Cardinality({i \in 1..Len(orders) :
                                                         task_ids[i] = id})]
                  [] OTHER ->
                        [k \in {"annotation_count"}
                               \cup (IF task_ids[id] = NoTask THEN {} ELSE {"task_id"})
                               \cup (IF orders[id] = 0 THEN {} ELSE {"order"}) |->
                            CASE k = "task_id" -> task_ids[id]
                              [] k = "order" -> orders[id]
                              [] OTHER -> 0]
    IN  [key \in keys |-> item(key)]

\* the rows of labels with the given names, under a block of the given type, or
\* left behind with no Block row
LabelTable(block_type, names) ==
    LET keys == (IF block_type = <<>> THEN {} ELSE {BlockKey(B)})
                    \cup {LabelKey(B, l) : l \in 1..Len(names)}
    IN  [key \in keys |->
            IF key = BlockKey(B)
            THEN [block_type |-> block_type[1], image_count |-> 0,
                  approved_image_count |-> 0, annotation_count |-> 0]
            ELSE [label_name |-> names[key[2][2]]]]

Listed(op, result) ==
    /\ last = NoRequest
    /\ last' = [op |-> op, result |-> result]
    /\ UNCHANGED <<table, nextId, nFailed, nPhantom, budget, counted, script, cascadeVars,
                   race>>

LoadImagesForBlock ==
    \E tb \in {table} : \E op \in {"load_images_for_block"} :
        Listed(op, load_images_for_block(tb))

ListBlockTasks ==
    \E tb \in {table} : \E op \in {"list_block_tasks"} :
        Listed(op, list_block_tasks(tb))

ListBlockTasksHttp ==
    \E tb \in {table} : \E op \in {"list_block_tasks_http"} :
        Listed(op, list_block_tasks_http(tb))

FetchLabelsForBlock ==
    \E tb \in {table} : \E op \in {"fetch_labels_for_block"} :
        Listed(op, fetch_labels_for_block(tb))

InitList ==
    /\ \/ \E n \in 0..ListImages, newest_first \in BOOLEAN :
             \E task_ids \in [1..n -> 0..(ListTasks + 1)], orders \in [1..n -> 0..MaxOrder] :
                table = ImageTable(ListTasks, newest_first, task_ids, orders)
       \/ \E n \in 0..ListLabels :
             \E block_type \in {<<>>} \cup {<<bt>> : bt \in BlockTypes},
                names \in [1..n -> LabelNames] :
                table = LabelTable(block_type, names)
    /\ nextId = [task |-> 0, image |-> 0, annotation |-> 0]
    /\ nFailed = 0
    /\ nPhantom = 0
    /\ budget = 0
    /\ counted = [t \in TaskIds \cup {NoTask} |-> [n |-> 0, m |-> 0]]
    /\ script = [k \in DOMAIN Scenarios |-> -1]
    /\ Idle
    /\ table0 = table

NextList ==
    \/ LoadImagesForBlock
    \/ ListBlockTasks
    \/ ListBlockTasksHttp
    \/ FetchLabelsForBlock

SpecList == InitList /\ [][NextList]_vars

----------------------------------------------------------------------------
(* Annotations of existing images: created, and deleted while stored *)

AnnotImages == 2
AnnotMax == 5

AnnotateImage ==
    /\ nextId.annotation < AnnotMax
    /\ \E i \in 1..AnnotImages :
         LET a == nextId.annotation + 1
         IN  /\ Respond(Request("create_annotation", a, i, NoPayload),
                        create_annotation(Begin(table, NoFault), i, a))
             /\ nextId' = [nextId EXCEPT !.annotation = a]

DeleteStoredAnnotation ==
    \E i \in 1..AnnotImages, a \in 1..AnnotMax :
        /\ Has(table, AnnotationKey(i, a))
        /\ Respond(Request("delete_annotation", a, i, NoPayload),
                   delete_annotation(Begin(table, NoFault), i, a))
        /\ UNCHANGED nextId

InitAnnotate ==
    /\ table = Populated(0, 0, AnnotImages, 0)
    /\ nextId = [task |-> 0, image |-> AnnotImages, annotation |-> 0]
    /\ nFailed = 0
    /\ nPhantom = 0
    /\ budget = 0
    /\ counted = [t \in TaskIds \cup {NoTask} |-> [n |-> 0, m |-> 0]]
    /\ script = [k \in DOMAIN Scenarios |-> -1]
    /\ Idle
    /\ table0 = table

NextAnnotate ==
    \/ AnnotateImage
    \/ DeleteStoredAnnotation

SpecAnnotate == InitAnnotate /\ [][NextAnnotate]_vars

----------------------------------------------------------------------------
(* delete_s3_prefix: the listing under the block's prefix is a sequence of *)
(* pages, every page but the last truncated and carrying the token of the  *)
(* next; the locals of the call are kept in last.                          *)

MaxPages == 3
MaxPageKeys == 2

\* the object keys of page k of a listing with the given page sizes
PageKeys(sizes, k) == {<<k, j>> : j \in 1..sizes[k]}

is_truncated(purge, k) == k < Len(purge.pages)

\* after page k: take its token and list again, or break
NextPage(purge, k) ==
    IF is_truncated(purge, k)
    THEN [purge EXCEPT !.continuation = <<k + 1>>, !.pc = "list"]
    ELSE [purge EXCEPT !.pc = "returned"]

PurgeStep(purge) ==
    /\ last' = purge
    /\ UNCHANGED <<table, table0, nextId, nFailed, nPhantom, budget, counted, script,
                   cascadeVars, race>>

\* list_objects_v2 that never passes the continuation token
ListObjects_from_start ==
    /\ last.op = "delete_s3_prefix"
    /\ last.pc = "list"
    /\ LET k == 1
           listed == [last EXCEPT !.listed = Append(@, k), !.page = k]
       IN  IF last.pages[k] \cap last.objects = {}
           THEN PurgeStep(NextPage(listed, k))
           ELSE PurgeStep([listed EXCEPT !.pc = "delete"])

\* list_objects_v2 answers with the page the token names, the first without one
ListObjects ==
    /\ last.op = "delete_s3_prefix"
    /\ last.pc = "list"
    /\ LET k == IF last.continuation = <<>> THEN 1 ELSE last.continuation[1]
           listed == [last EXCEPT !.listed = Append(@, k), !.page = k]
       IN  IF last.pages[k] \cap last.objects = {}
           THEN PurgeStep(NextPage(listed, k))
           ELSE PurgeStep([listed EXCEPT !.pc = "delete"])

\* list_objects_v2 errors: "?" returns the error
ListObjectsError ==
    /\ last.op = "delete_s3_prefix"
    /\ last.pc = "list"
    /\ PurgeStep([last EXCEPT !.pc = "failed", !.err = "S3 list failed"])

\* delete_objects removes the page's objects
DeleteObjects ==
    /\ last.op = "delete_s3_prefix"
    /\ last.pc = "delete"
    /\ PurgeStep(NextPage([last EXCEPT !.objects = @ \ last.pages[last.page],
                                       !.deletes = Append(@, [page |-> last.page,
                                                              ok |-> TRUE])],
                          last.page))

\* delete_objects errors: "let _ =" drops the result
DeleteObjectsError ==
    /\ last.op = "delete_s3_prefix"
    /\ last.pc = "delete"
    /\ PurgeStep(NextPage([last EXCEPT !.deletes = Append(@, [page |-> last.page,
                                                              ok |-> FALSE])],
                          last.page))

InitPurge ==
    /\ \E n \in 1..MaxPages :
          \E sizes \in [1..n -> 0..MaxPageKeys] :
             last = [op |-> "delete_s3_prefix", pc |-> "list", err |-> "",
                     pages |-> [k \in 1..n |-> PageKeys(sizes, k)],
                     objects |-> UNION {PageKeys(sizes, k) : k \in 1..n},
                     continuation |-> <<>>, page |-> 0,
                     listed |-> <<>>, deletes |-> <<>>]
    /\ table = NewBlockTable
    /\ nextId = [task |-> 0, image |-> 0, annotation |-> 0]
    /\ nFailed = 0
    /\ nPhantom = 0
    /\ budget = 0
    /\ counted = [t \in TaskIds \cup {NoTask} |-> [n |-> 0, m |-> 0]]
    /\ script = [k \in DOMAIN Scenarios |-> -1]
    /\ pc = "idle" /\ delete_keys = <<>> /\ chunk = 0 /\ attempts = 0
    /\ unprocessed = <<>> /\ sent = {} /\ calln = 0 /\ outcome = <<>> /\ faults = 0
    /\ race = NoRace
    /\ table0 = table

NextPurge ==
    \/ ListObjects
    \/ ListObjectsError
    \/ DeleteObjects
    \/ DeleteObjectsError

\* the call runs on: every await of it completes
SpecPurge == InitPurge /\ [][NextPurge]_vars /\ WF_vars(NextPurge)

----------------------------------------------------------------------------
(* What the claims speak of *)

Block(tb) == tb[BlockKey(B)]

\* the Image rows stored under partition BLOCK#<block_id>
ImageRows(tb) == {i \in ImageIds : Has(tb, ImageKey(B, i))}

\* the Image rows attached to task t
ImageRowsOf(tb, t) ==
    {i \in ImageRows(tb) : "task_id" \in DOMAIN tb[ImageKey(B, i)]
                           /\ tb[ImageKey(B, i)].task_id = t}

\* the block's Task rows, and those in state "done"
TaskRows(tb) == {t \in TaskIds : Has(tb, TaskKey(B, t))}
DoneTasks(tb) == {t \in TaskRows(tb) : tb[TaskKey(B, t)].task_state = "done"}

\* the Annotation rows stored under the images of the block
AnnotationRows(tb) ==
    {ia \in ImageRows(tb) \X AnnotationIds : Has(tb, AnnotationKey(ia[1], ia[2]))}

\* whether a request wrote to the block row
WroteBlock(R) == \E n \in 1..Len(R.calls) :
                    R.calls[n].key = BlockKey(B) /\ R.calls[n].op # "get_item"

RECURSIVE Sum(_, _)
Sum(f, S) == IF S = {} THEN 0
             ELSE LET x == CHOOSE y \in S : TRUE IN f[x] + Sum(f, S \ {x})

----------------------------------------------------------------------------
(* C1: from a new block, create_task T; create_image I1 under T; update_task *)
(* T with task_state = "done"; delete_image I1 passes through: after the     *)
(* image create Block.image_count = 1, Task.image_count = 1,                 *)
(* Block.approved_image_count = 0; after the state update                    *)
(* Block.approved_image_count = 1; after the image delete all three are 0.   *)
C1_ConcreteScenario ==
    /\ script.concrete = 0 =>
         Block(table) = [image_count |-> 0, approved_image_count |-> 0, annotation_count |-> 0]
    /\ script.concrete = 2 =>
         /\ Block(table).image_count = 1
         /\ table[TaskKey(B, 1)].image_count = 1
         /\ Block(table).approved_image_count = 0
    /\ script.concrete = 3 => Block(table).approved_image_count = 1
    /\ script.concrete = 4 =>
         /\ Block(table).image_count = 0
         /\ table[TaskKey(B, 1)].image_count = 0
         /\ Block(table).approved_image_count = 0

C1_Witness == script.concrete = 4

(* C2: after any sequence of successful requests on the block,              *)
(* Block.approved_image_count is the sum over the tasks in state "done" of   *)
(* the number of Image rows attached to the task.                            *)
C2_ApprovedIsSumOverDone ==
    Block(table).approved_image_count =
        Sum([t \in TaskIds |-> Cardinality(ImageRowsOf(table, t))], DoneTasks(table))

\* a done task with an image beside a task that is not done and has an image
C2_Witness ==
    /\ script.two_tasks = 6
    /\ Block(table).approved_image_count = 1
    /\ Block(table).image_count = 2

(* C3: after any sequence of successful create_image (with or without       *)
(* task_id), delete_image and delete_task requests, Block.image_count is the *)
(* number of Image rows under BLOCK#<block_id>.                              *)
C3_ImageCountIsRows ==
    Block(table).image_count = Cardinality(ImageRows(table))

\* images created with and without a task, one deleted alone, one with its task
C3_Witness ==
    /\ script.drop_task = 5
    /\ Block(table).image_count = 0

(* C4: after any sequence of successful create_annotation, delete_annotation *)
(* (for any annotation id, also one that has no stored row), delete_image    *)
(* and delete_task requests, Block.annotation_count is the number of         *)
(* Annotation rows stored under the images of the block.                     *)
C4_AnnotationCountIsRows ==
    nFailed = 0 =>
        Block(table).annotation_count = Cardinality(AnnotationRows(table))

(* C5: after N successful create_image and M successful delete_image under  *)
(* a task, Task.image_count = N - M, and Block.image_count is the sum of     *)
(* these net amounts over the tasks and the images without a task.           *)
C5_NetImageCount ==
    /\ \A t \in TaskRows(table) :
          table[TaskKey(B, t)].image_count = counted[t].n - counted[t].m
    /\ Block(table).image_count =
          Sum([t \in TaskIds \cup {NoTask} |-> counted[t].n - counted[t].m],
              TaskIds \cup {NoTask})

\* N = 2, M = 1 under one task
C5_Witness ==
    \E t \in TaskRows(table) :
        /\ counted[t] = [n |-> 2, m |-> 1]
        /\ table[TaskKey(B, t)].image_count = 1

(* C6: a successful update_task with task_state = new on a task whose stored *)
(* state is old and stored image_count is k changes                          *)
(* Block.approved_image_count by +k when new is "done" and old is not, by -k *)
(* when old is "done" and new is not, and by 0 otherwise (done to done,      *)
(* non-done to non-done, k = 0, no task_state in the payload); in the 0      *)
(* cases it does not write to the block row.  Stated of every update_task    *)
(* request that a reachable table can receive.                               *)
C6_UpdateTaskDelta ==
    \A t \in TaskRows(table), payload \in TaskPayloads :
        LET R == update_task(Begin(table, NoFault), t, payload)
            old == table[TaskKey(B, t)].task_state
            k == table[TaskKey(B, t)].image_count
            new == payload.task_state
            expected == IF new = "done" /\ old # "done" THEN k
                        ELSE IF old = "done" /\ new # "done" /\ new # NoneStr THEN -k
                        ELSE 0
        IN  /\ R.ok
            /\ Block(R.tb).approved_image_count
                 = Block(table).approved_image_count + expected
            /\ expected = 0 => ~WroteBlock(R)

\* a task with two images went to "done" (+2), was saved as "done" again, and reopened (-2)
C6_Witness ==
    /\ script.reopen = 6
    /\ table[TaskKey(B, 1)].image_count = 2
    /\ Block(table).approved_image_count = 0

(* C7: a successful create_image with a task_id adds exactly 1 to            *)
(* Block.approved_image_count when the task is "done" and nothing otherwise; *)
(* a successful delete_image of an image with a task_id subtracts exactly 1  *)
(* when the task is "done" and nothing otherwise; images without task_id     *)
(* never change it.  Stated of every such request a reachable table can      *)
(* receive.                                                                  *)
C7_ImageApprovedDelta ==
    /\ \A t \in TaskRows(table) \cup {NoTask} :
          LET R == create_image(Begin(table, NoFault), nextId.image + 1, t)
          IN  /\ R.ok
              /\ Block(R.tb).approved_image_count = Block(table).approved_image_count
                    + (IF t \in DoneTasks(table) THEN 1 ELSE 0)
    /\ \A i \in ImageRows(table) :
          LET R == delete_image(Begin(table, NoFault), i)
              t == ImageOf(table, i).task_id
          IN  /\ R.ok
              /\ Block(R.tb).approved_image_count = Block(table).approved_image_count
                    - (IF t \in DoneTasks(table) THEN 1 ELSE 0)

\* an image was created under a task already "done", one without a task, and
\* the first was deleted again
C7_Witness ==
    /\ script.done_first = 5
    /\ Block(table).approved_image_count = 0
    /\ Block(table).image_count = 1

----------------------------------------------------------------------------
(* What the delete_block claims speak of *)

\* a finished call in which no store call errored and nothing was reported unprocessed
Clean(o) == o.error = "none" /\ ~o.reported

\* two calls have returned
TwoCallsReturned == Len(outcome) >= 2 /\ outcome[2].result # "running"

\* the second call succeeded like the first, found no descendant row, asked
\* only for the block key to be deleted and left the store as the first left it
SecondAsFirst ==
    /\ outcome[1].result = "ok"
    /\ outcome[2].result = "ok"
    /\ outcome[2].collected = 1
    /\ outcome[2].sent = {BlockKey(B)}
    /\ outcome[2].left = outcome[1].left

C9_LaterDeleteCleansUp ==
    ( /\ TwoCallsReturned
      /\ outcome[1].error = "batch" \/ outcome[1].dropped
      /\ outcome[2].result = "ok"
      /\ Clean(outcome[2]) )
        => DOMAIN outcome[2].left \ {BlockKey(B)} = {}

----------------------------------------------------------------------------
(* What the claims about one request under store faults speak of *)

\* the keys of the Annotation rows stored under IMAGE#<i>
AnnotationKeysOf(tb, i) ==
    {k \in DOMAIN tb : k[1] = <<"IMAGE#", i>> /\ k[2][1] = "ANNOTATION#"}

\* the keys of the block's Image rows whose task_id is t
ImageKeysOf(tb, t) ==
    {k \in DOMAIN tb : /\ k[1] = <<"BLOCK#", B>>
                       /\ k[2][1] = "IMAGE#"
                       /\ "task_id" \in DOMAIN tb[k]
                       /\ tb[k].task_id = t}

(* C11: delete_image deletes every Annotation row under IMAGE#<image_id>     *)
(* before the Image row: wherever a delete_image stops (at a failing store   *)
(* call, or at its end) the Image row is not absent while one of its         *)
(* Annotation rows is present, and after a successful delete_image no        *)
(* Annotation row of the image remains.                                      *)
C11_AnnotationsBeforeImage ==
    last.op = "delete_image" =>
        /\ ~Has(table, ImageKey(B, last.a)) => AnnotationKeysOf(table, last.a) = {}
        /\ last.ok => /\ ~Has(table, ImageKey(B, last.a))
                      /\ AnnotationKeysOf(table, last.a) = {}

\* an image with two annotations was deleted
C11_Witness ==
    /\ last.op = "delete_image"
    /\ last.ok
    /\ Cardinality(AnnotationKeysOf(table0, last.a)) = 2
    /\ AnnotationKeysOf(table, last.a) = {}

(* C12: delete_task deletes every image attached to the task through        *)
(* delete_image: a task with k images lowers Block.image_count by k, and     *)
(* Block.approved_image_count by k exactly when the task is "done"; the Task *)
(* row is deleted only after all these deletions succeeded; if one fails the *)
(* Task row still exists and the error is returned.                          *)
C12_DeleteTaskImagesFirst ==
    (last.op = "delete_task" /\ Has(table0, TaskKey(B, last.a))) =>
        LET t == last.a
            k == Cardinality(ImageKeysOf(table0, t))
            done == table0[TaskKey(B, t)].task_state = "done"
        IN  /\ last.ok =>
                /\ Block(table).image_count = Block(table0).image_count - k
                /\ Block(table).approved_image_count
                     = Block(table0).approved_image_count - (IF done THEN k ELSE 0)
                /\ ~Has(table, TaskKey(B, t))
            /\ ~Has(table, TaskKey(B, t)) => ImageKeysOf(table, t) = {}
            /\ ~last.ok => Has(table, TaskKey(B, t)) /\ last.err # ""

\* a "done" task with two images was deleted
C12_Witness ==
    /\ last.op = "delete_task"
    /\ last.ok
    /\ Has(table0, TaskKey(B, last.a))
    /\ table0[TaskKey(B, last.a)].task_state = "done"
    /\ Cardinality(ImageKeysOf(table0, last.a)) = 2
    /\ Block(table0).approved_image_count = 2
    /\ Block(table).approved_image_count = 0

\* whether every call of a request is a read
ReadsOnly(calls) == \A n \in 1..Len(calls) : calls[n].op \in {"get_item", "query"}

(* C15: update_image on an image id that has no row returns "Image not     *)
(* found" and issues no write to the store, whatever the payload (locked,  *)
(* order, both, or neither).                                               *)
C15_UpdateMissingImageNotFound ==
    (last.op = "update_image" /\ ~Has(table0, ImageKey(B, last.a)) /\ last.fault = NoFault) =>
        /\ ~last.ok
        /\ last.err = "Image not found"
        /\ ReadsOnly(last.calls)
        /\ table = table0

(* C16: update_task on a task id that has no row and delete_image on an    *)
(* image id that has no row leave the store exactly as it was, and return  *)
(* "Task not found" / "Image not found" when the read itself succeeds.     *)
C16_MissingRowLeavesStore ==
    /\ (last.op = "update_task" /\ ~Has(table0, TaskKey(B, last.a))) =>
            /\ ~last.ok
            /\ table = table0
            /\ ReadsOnly(last.calls)
            /\ last.fault = NoFault => last.err = "Task not found"
    /\ (last.op = "delete_image" /\ ~Has(table0, ImageKey(B, last.a))) =>
            /\ ~last.ok
            /\ table = table0
            /\ ReadsOnly(last.calls)
            /\ last.fault = NoFault => last.err = "Image not found"

\* both halves: a missing task given a state to set, and a missing image with a
\* block that has counters to lose
C16_Witness ==
    /\ last.op \in {"update_task", "delete_image"}
    /\ last.err \in {"Task not found", "Image not found"}
    /\ last.op = "update_task" => last.payload.task_state = "done"
    /\ last.op = "delete_image" => Block(table0).image_count > 0
    /\ table = table0

\* the store calls of create_image, in the order of the code
CreateImageCalls(i, task_id) ==
    SubSeq(<< Call("put_item", ImageKey(B, i), ""),
              Call("update_item", BlockKey(B), "image_count"),
              Call("update_item", TaskKey(B, task_id), "image_count"),
              Call("get_item", TaskKey(B, task_id), ""),
              Call("update_item", BlockKey(B), "approved_image_count") >>,
           1, IF task_id = NoTask THEN 2 ELSE 5)

IsPrefixOf(s, t) == Len(s) <= Len(t) /\ s = SubSeq(t, 1, Len(s))

\* the number of create_image's steps that took effect: all that were issued,
\* but the last one when the request failed
Applied(req) == IF req.ok THEN Len(req.calls) ELSE Len(req.calls) - 1

(* C17: create_image issues put Image row, Block.image_count + 1,          *)
(* Task.image_count + 1, read task, Block.approved_image_count + 1 (the    *)
(* last only for a done task) in this order; when step N fails no later    *)
(* step is issued, an error is returned, and exactly the effects of the    *)
(* steps before N are in the store.                                        *)
C17_CreateImageStepOrder ==
    last.op = "create_image" =>
        LET i == last.a
            t == last.b
            n == Applied(last)
            plus(k) == IF n >= k THEN 1 ELSE 0
        IN  /\ IsPrefixOf(last.calls, CreateImageCalls(i, t))
            /\ last.fault # NoFault => ~last.ok /\ Len(last.calls) = last.fault
            /\ ~last.ok => last.err # ""
            /\ Has(table, ImageKey(B, i)) <=> n >= 1
            /\ DOMAIN table \ {ImageKey(B, i)} = DOMAIN table0
            /\ \A k \in DOMAIN table0 \ {BlockKey(B), TaskKey(B, t)} : table[k] = table0[k]
            /\ Block(table) = [Block(table0) EXCEPT
                                  !.image_count = @ + plus(2),
                                  !.approved_image_count = @ + plus(5)]
            /\ Has(table0, TaskKey(B, t)) =>
                   table[TaskKey(B, t)] = [table0[TaskKey(B, t)] EXCEPT
                                              !.image_count = @ + plus(3)]

\* the Task.image_count increment fails: the Image row and the block's count stay
C17_Witness ==
    /\ last.op = "create_image" /\ ~last.ok /\ Len(last.calls) = 3
    /\ Has(table, ImageKey(B, last.a))
    /\ Block(table).image_count = Block(table0).image_count + 1

\* the table when the k-th delete_block call started
Before(k) == IF k = 1 THEN table0 ELSE outcome[k - 1].left

\* the keys of the groups lo..hi of a key list
GroupKeys(keys, lo, hi) == UNION {Keys(chunk_at(keys, c)) : c \in lo..hi}

(* C18: batch_delete_items sends a group at most 5 times.  A group is sent *)
(* again only when the store reported unprocessed items and fewer than 5   *)
(* sends were made; the fifth send ends the group whatever is unprocessed, *)
(* the next group follows, and delete_block returns success.               *)
C18_AtMostFiveAttempts ==
    [][/\ pc = "batch" => attempts < MaxAttempts
       /\ (pc = "batch" /\ pc' = "batch" /\ chunk' = chunk) =>
              /\ attempts' = attempts + 1
              /\ attempts' < MaxAttempts
              /\ unprocessed' # <<>>
              /\ Keys(unprocessed') \subseteq Keys(unprocessed)
              /\ outcome'[calln].reported
       /\ (pc = "batch" /\ attempts + 1 = MaxAttempts) =>
              \/ outcome'[calln].result = "error"
              \/ pc' = "batch" /\ chunk' = chunk + 1 /\ attempts' = 0
              \/ pc' = "purge" /\ chunk = chunks(delete_keys)
       /\ (pc = "batch" /\ outcome'[calln].dropped /\ ~outcome[calln].dropped) =>
              /\ outcome'[calln].result = "running"
              /\ pc' \in {"batch", "purge"}
       /\ pc = "purge" => outcome'[calln].result = "ok"]_vars

\* the first of two groups lost keys at its fifth send, the second group was
\* deleted all the same (the block row is its last key), and the call returned ok
C18_Witness ==
    \E k \in 1..Len(outcome) :
        /\ outcome[k].result = "ok"
        /\ outcome[k].dropped
        /\ outcome[k].collected > ChunkSize
        /\ Has(Before(k), BlockKey(B))
        /\ ~Has(outcome[k].left, BlockKey(B))
        /\ DOMAIN outcome[k].left # {}

(* C19: when a key-collection query of delete_block fails, the call        *)
(* returns an error, no batch delete was sent and the store is as it was   *)
(* when the call started.                                                  *)
C19_QueryErrorDeletesNothing ==
    \A k \in 1..Len(outcome) :
        outcome[k].error = "query" =>
            /\ outcome[k].result = "error"
            /\ outcome[k].sent = {}
            /\ ~outcome[k].purged
            /\ outcome[k].left = Before(k)
            /\ k = Len(outcome) /\ pc = "idle" => table = Before(k)

\* a failed query on a block that has child rows to delete
C19_Witness ==
    \E k \in 1..Len(outcome) :
        /\ outcome[k].error = "query"
        /\ Cardinality(DOMAIN outcome[k].left) > ChunkSize
        /\ Has(outcome[k].left, BlockKey(B))

(* C20: when batch_write_item fails on group i, delete_block returns the   *)
(* error: no key of a later group was sent and the rows of later groups    *)
(* are untouched, no row deleted before is back, groups before i that      *)
(* reported nothing unprocessed are gone, and the object-store purge was   *)
(* not run.                                                                *)
C20_BatchErrorStopsCascade ==
    \A k \in 1..Len(outcome) :
        outcome[k].error = "batch" =>
            LET keys == collect_delete_keys(Before(k), B)
                i == outcome[k].group
                later == GroupKeys(keys, i + 1, chunks(keys))
                earlier == GroupKeys(keys, 1, i - 1)
            IN  /\ outcome[k].result = "error"
                /\ ~outcome[k].purged
                /\ i \in 1..chunks(keys)
                /\ outcome[k].sent \subseteq GroupKeys(keys, 1, i)
                /\ \A key \in later : Has(outcome[k].left, key) <=> Has(Before(k), key)
                /\ DOMAIN outcome[k].left \subseteq DOMAIN Before(k)
                /\ ~outcome[k].reported => earlier \cap DOMAIN outcome[k].left = {}
                /\ k = Len(outcome) /\ pc = "idle" => table = outcome[k].left

\* the error is on the first of two groups, and on the second of two
C20_Witness ==
    /\ \E k \in 1..Len(outcome) :
          /\ outcome[k].error = "batch" /\ outcome[k].group = 2
          /\ ~outcome[k].reported
          /\ Has(outcome[k].left, BlockKey(B))
    /\ \E k \in 1..Len(outcome) :
          /\ outcome[k].error = "batch" /\ outcome[k].group = 1
          /\ outcome[k].collected > ChunkSize

\* both concurrent requests have returned Ok
BothReturned == race # NoRace /\ \A p \in DOMAIN race : race[p].pc = "returned"

(* C13: when two concurrent create_image requests under the same existing  *)
(* task have both returned successfully, Task.image_count and              *)
(* Block.image_count are each 2 higher than before and both Image rows     *)
(* exist, however the store calls interleaved.                             *)
C13_TwoCreatesCountTwo ==
    (/\ BothReturned
     /\ \A p \in DOMAIN race : race[p].op = "create_image" /\ race[p].b = race[1].b
     /\ race[1].b # NoTask) =>
        LET t == race[1].b
        IN  /\ table[TaskKey(B, t)].image_count = table0[TaskKey(B, t)].image_count + 2
            /\ Block(table).image_count = Block(table0).image_count + 2
            /\ \A p \in DOMAIN race : Has(table, ImageKey(B, race[p].a))
            /\ race[1].a # race[2].a

\* two creations under a done task that already has an image
C13_Witness ==
    /\ BothReturned
    /\ \A p \in DOMAIN race : race[p].op = "create_image" /\ race[p].b = 1
    /\ table0[TaskKey(B, 1)].task_state = "done"
    /\ table[TaskKey(B, 1)].image_count = 3

(* C14: when an update_task that moves the block's only task into or out   *)
(* of "done" and a concurrent create_image or delete_image under that task *)
(* have both returned successfully, Block.approved_image_count equals the  *)
(* task's image_count if the task is "done" and 0 otherwise.               *)
C14_ApprovedAfterRace ==
    (/\ BothReturned
     /\ race[1].op = "update_task"
     /\ race[2].op \in {"create_image", "delete_image"}
     /\ race[2].b = race[1].a
     /\ race[1].payload.task_state # NoneStr
     /\ (table0[TaskKey(B, race[1].a)].task_state = "done")
            # (race[1].payload.task_state = "done")) =>
        LET task == table[TaskKey(B, race[1].a)]
        IN  Block(table).approved_image_count =
                IF task.task_state = "done" THEN task.image_count ELSE 0

(* C21: when the object-store purge of delete_block fails, the call still  *)
(* returns success and the rows removed by the batch deletes stay removed; *)
(* the purge is started only when every group of keys has been dealt with. *)
C21_PurgeFailureSwallowed ==
    /\ pc = "purge" =>
          /\ chunk = 0 /\ unprocessed = <<>>
          /\ outcome[calln].result = "running"
          /\ Keys(delete_keys) \subseteq sent
    /\ (pc = "idle" /\ outcome # <<>>) =>
          LET k == Len(outcome)
              o == outcome[k]
          IN  /\ o.purged => o.error = "none" /\ Cardinality(o.sent) = o.collected
              /\ o.purge_failed =>
                    /\ o.purged
                    /\ o.result = "ok"
                    /\ table = o.left
                    /\ DOMAIN o.left \subseteq DOMAIN Before(k)
                    /\ ~o.reported => DOMAIN o.left \cap o.sent = {}

\* a failed purge after two groups of keys were deleted
C21_Witness ==
    \E k \in 1..Len(outcome) :
        /\ outcome[k].purge_failed
        /\ outcome[k].result = "ok"
        /\ outcome[k].collected > ChunkSize
        /\ Has(Before(k), BlockKey(B))
        /\ DOMAIN outcome[k].left = {}

\* the position of the image with the given id in a list
PosOf(images, image_id) == CHOOSE n \in 1..Len(images) : images[n].image_id = image_id

\* out is input reordered: present orders ascending, None behind them, and images
\* that compare equal in their input order
SortedByOrder(input, out) ==
    /\ Len(out) = Len(input)
    /\ {out[n] : n \in 1..Len(out)} = {input[n] : n \in 1..Len(input)}
    /\ \A i, j \in 1..Len(out) :
          i < j =>
            /\ out[i].order = <<>> => out[j].order = <<>>
            /\ (out[i].order # <<>> /\ out[j].order # <<>>) =>
                  out[i].order[1] <= out[j].order[1]
            /\ out[i].order = out[j].order =>
                  PosOf(input, out[i].image_id) < PosOf(input, out[j].image_id)

\* the queried images whose task_id is the given task's
QueriedOf(tb, task_id) ==
    SelectSeq(queried_images(tb), LAMBDA img : img.task_id = <<task_id>>)

(* C22: the list of load_images_for_block, and each task's image list in   *)
(* both tasks-with-images joins, is a permutation of the queried images in *)
(* which present orders ascend, every None comes after every present       *)
(* order, and images with equal order (or both None) keep their input      *)
(* order.                                                                  *)
C22_ImagesSortedByOrder ==
    /\ last.op = "load_images_for_block" =>
          SortedByOrder(queried_images(table), last.result)
    /\ last.op \in {"list_block_tasks", "list_block_tasks_http"} =>
          \A n \in 1..Len(last.result) :
              SortedByOrder(QueriedOf(table, last.result[n].task_id), last.result[n].images)

\* orders [2, None, 1] come back as [1, 2, None]
C22_Witness ==
    /\ last.op = "load_images_for_block"
    /\ Len(last.result) = 3
    /\ [n \in 1..3 |-> queried_images(table)[n].order] = << <<2>>, <<>>, <<1>> >>
    /\ [n \in 1..3 |-> last.result[n].image_id] = <<3, 1, 2>>

\* the ordering table of a block type, empty for a type that has none
OrderingTable(block_type) ==
    CASE block_type = "floor" -> FLOOR_PLAN_ORDER
      [] block_type = "elevation" -> ELEVATION_ORDER
      [] block_type = "electrical" -> ELECTRICAL_PLAN_ORDER
      [] block_type = "roof" -> ROOF_PLAN_ORDER
      [] OTHER -> <<>>

InTable(list, name) == \E n \in 1..Len(list) : list[n] = name

IndexIn(list, name) == CHOOSE n \in 1..Len(list) : list[n] = name

NamesOf(labels) == [n \in 1..Len(labels) |-> labels[n].label_name]

ListedUnder(result, n) == {result[n].images[k].image_id : k \in 1..Len(result[n].images)}

(* C24: in both tasks-with-images joins every task of the block is         *)
(* returned once, with exactly the block's images whose task_id is its id  *)
(* (none: an empty list); no image is listed under two tasks or twice, and *)
(* an image without task_id, or with a task_id that no task has, is listed *)
(* under no task.                                                          *)
C24_TasksCarryTheirImages ==
    last.op \in {"list_block_tasks", "list_block_tasks_http"} =>
        LET out == last.result
            images == queried_images(table)
            task_ids == {t \in 1..(ListTasks + 1) : Has(table, TaskKey(B, t))}
        IN  /\ Len(out) = Cardinality(task_ids)
            /\ {out[n].task_id : n \in 1..Len(out)} = task_ids
            /\ \A n \in 1..Len(out) :
                  /\ ListedUnder(out, n) =
                        {images[k].image_id : k \in {k \in 1..Len(images) :
                                                  images[k].task_id = <<out[n].task_id>>}}
                  /\ Len(out[n].images) = Cardinality(ListedUnder(out, n))
            /\ \A n, m \in 1..Len(out) :
                  n # m => ListedUnder(out, n) \cap ListedUnder(out, m) = {}
            /\ \A k \in 1..Len(images) :
                  (images[k].task_id = <<>> \/ images[k].task_id[1] \notin task_ids) =>
                      \A n \in 1..Len(out) : images[k].image_id \notin ListedUnder(out, n)

\* one image under task 1, one without task, one under a task that has no row;
\* task 2 has no image
C24_Witness ==
    /\ last.op = "list_block_tasks"
    /\ Len(queried_images(table)) = 3
    /\ [n \in 1..3 |-> queried_images(table)[n].task_id] = << <<1>>, <<>>, <<3>> >>
    /\ \E n, m \in 1..Len(last.result) :
          /\ last.result[n].task_id = 1 /\ ListedUnder(last.result, n) = {1}
          /\ last.result[m].task_id = 2 /\ last.result[m].images = <<>>

\* the key of the row an update request is aimed at
UpdatedKey ==
    CASE last.op = "update_block" -> BlockKey(B)
      [] last.op = "update_task" -> TaskKey(B, last.a)
      [] last.op = "update_image" -> ImageKey(B, last.a)
      [] last.op = "update_label" -> LabelKey(B, last.a)

\* the fields the payload of an update request carries
PayloadFields ==
    IF last.op = "update_task"
    THEN {f \in DOMAIN last.payload : last.payload[f] # NoneStr}
    ELSE DOMAIN last.payload

\* row `key` holds after the request what it held before, but for the fields `but`
KeepsFields(key, but) ==
    /\ Has(table0, key) <=> Has(table, key)
    /\ Has(table, key) =>
          /\ \A a \in DOMAIN table0[key] \ but :
                a \in DOMAIN table[key] /\ table[key][a] = table0[key][a]
          /\ DOMAIN table[key] \ but \subseteq DOMAIN table0[key]

(* C25: update_block, update_task, update_image and update_label write    *)
(* only the fields present in their payload: every other stored field of   *)
(* the row, and every other row (but for the block's approved_image_count  *)
(* in an update_task), keeps its value, no field outside the payload       *)
(* appears, and with an empty payload no write is issued.                  *)
C25_UpdatesWriteOnlyPayload ==
    last.op \in {"update_block", "update_task", "update_image", "update_label"} =>
        /\ Has(table0, UpdatedKey) => KeepsFields(UpdatedKey, PayloadFields)
        /\ ~Has(table0, UpdatedKey) /\ Has(table, UpdatedKey) =>
              DOMAIN table[UpdatedKey] \subseteq PayloadFields
        /\ \A key \in (DOMAIN table0 \cup DOMAIN table) \ {UpdatedKey} :
              KeepsFields(key, IF last.op = "update_task" /\ key = BlockKey(B)
                               THEN {"approved_image_count"} ELSE {})
        /\ PayloadFields = {} => ReadsOnly(last.calls)

\* the rows of tb that hold an updated_at field
Stamped(tb) == {key \in DOMAIN tb : "updated_at" \in DOMAIN tb[key]}

(* C26: every successful update_annotation and every successful           *)
(* update_image leaves the updated row with its updated_at field set to    *)
(* the time of the request, whatever the payload; update_block,            *)
(* update_task and update_label write no updated_at field.                 *)
C26_UpdatedAtStamped ==
    /\ (last.op = "update_annotation" /\ last.ok) =>
          /\ AnnotationKey(last.b, last.a) \in Stamped(table)
          /\ table[AnnotationKey(last.b, last.a)].updated_at = Now
    /\ (last.op = "update_image" /\ last.ok) =>
          /\ ImageKey(B, last.a) \in Stamped(table)
          /\ table[ImageKey(B, last.a)].updated_at = Now
    /\ last.op \in {"update_block", "update_task", "update_label"} =>
          Stamped(table) \subseteq Stamped(table0)

\* the positions in the request's calls of its counter adjustments
Adjustments ==
    {n \in 1..Len(last.calls) :
        /\ last.calls[n].op = "update_item"
        /\ last.calls[n].what \in {"image_count", "approved_image_count", "annotation_count"}}

\* the positions in the request's calls of the write of its own row
PrimaryWrites ==
    LET write ==
            CASE last.op = "create_image" -> Call("put_item", ImageKey(B, last.a), "")
              [] last.op = "delete_image" -> Call("delete_item", ImageKey(B, last.a), "")
              [] last.op = "update_task" -> Call("update_item", TaskKey(B, last.a), "SET")
              [] last.op = "create_annotation" ->
                     Call("put_item", AnnotationKey(last.b, last.a), "")
              [] last.op = "delete_annotation" ->
                     Call("delete_item", AnnotationKey(last.b, last.a), "")
    IN  {n \in 1..Len(last.calls) : last.calls[n] = write}

(* C27: in create_image, delete_image, update_task, create_annotation and  *)
(* delete_annotation every counter adjustment is issued after the write of *)
(* the request's own row (put, SET update or row delete) was issued and    *)
(* had succeeded.                                                          *)
C27_PrimaryWriteBeforeCounters ==
    last.op \in {"create_image", "delete_image", "update_task",
                 "create_annotation", "delete_annotation"} =>
        \A n \in Adjustments :
            \E m \in PrimaryWrites : m < n /\ last.fault # m

\* the positions of a key in the collected list
Positions(key) == {n \in 1..Len(delete_keys) : delete_keys[n] = key}

\* every occurrence of the key `child` lies before every occurrence of `parent`
Precedes(child, parent) ==
    \A c \in Positions(child), p \in Positions(parent) : c < p

(* C29: in the list delete_block collects, the keys of an entity's children *)
(* come before the key of the entity's own row: the keys of a task's images *)
(* before the key of that Task row, the keys of an image's annotations      *)
(* before the key of that Image row.                                        *)
C29_ChildrenBeforeOwnRow ==
    pc = "batch" =>
        LET tb == Before(calln)
        IN  /\ \A key \in DOMAIN tb :
                  (key[2][1] = "IMAGE#" /\ "task_id" \in DOMAIN tb[key]) =>
                      Precedes(key, TaskKey(B, tb[key].task_id))
            /\ \A key \in DOMAIN tb :
                  key[2][1] = "ANNOTATION#" =>
                      Precedes(key, ImageKey(B, key[1][2]))

\* the number of groups of a call that collected n keys
GroupsOf(n) == (n + ChunkSize - 1) \div ChunkSize

(* C28: the block's own key is the last key of the list delete_block       *)
(* collects and stands nowhere else in it, so it is sent in the final       *)
(* group: the Block row is not deleted while an earlier group is being      *)
(* sent, and when batch_write_item errors on an earlier group the Block row *)
(* still exists.                                                            *)
C28_BlockRowLast ==
    /\ pc = "batch" =>
          /\ delete_keys[Len(delete_keys)] = BlockKey(B)
          /\ attempts = 0 =>
                /\ Positions(BlockKey(B)) = {Len(delete_keys)}
                /\ BlockKey(B) \in Keys(chunk_at(delete_keys, chunks(delete_keys)))
          /\ chunk < chunks(delete_keys) =>
                /\ BlockKey(B) \notin sent \cup Keys(unprocessed)
                /\ Has(Before(calln), BlockKey(B)) => Has(table, BlockKey(B))
    /\ \A k \in 1..Len(outcome) :
          ( /\ outcome[k].error = "batch"
            /\ outcome[k].group < GroupsOf(outcome[k].collected)
            /\ Has(Before(k), BlockKey(B)) )
              => /\ Has(outcome[k].left, BlockKey(B))
                 /\ BlockKey(B) \notin outcome[k].sent

\* batch_write_item failed on the first of two groups and the Block row was
\* still there; a second call then deleted it with the final group
C28_Witness ==
    /\ Len(outcome) = 2
    /\ outcome[1].error = "batch" /\ outcome[1].group = 1
    /\ outcome[1].collected > ChunkSize
    /\ Has(outcome[1].left, BlockKey(B))
    /\ outcome[2].result = "ok"
    /\ BlockKey(B) \in outcome[2].sent
    /\ ~Has(outcome[2].left, BlockKey(B))

(* C30: batch_delete_items cuts the key list into consecutive groups in    *)
(* list order, each of at most 25 keys and all but the last of exactly 25;  *)
(* every collected key is in the first request of exactly one group, and no *)
(* request carries more than 25 keys.                                       *)
C30_GroupsOfTwentyFive ==
    pc = "batch" =>
        LET n == chunks(delete_keys)
            group(c) == chunk_at(delete_keys, c)
        IN  /\ Len(unprocessed) \in 1..ChunkSize
            /\ chunk \in 1..n
            /\ attempts = 0 => unprocessed = group(chunk)
            /\ (chunk = 1 /\ attempts = 0) =>
                  /\ \A c \in 1..n :
                        /\ Len(group(c)) \in 1..ChunkSize
                        /\ c < n => Len(group(c)) = ChunkSize
                        /\ \A j \in 1..Len(group(c)) :
                              group(c)[j] = delete_keys[(c - 1) * ChunkSize + j]
                  /\ \A p \in 1..Len(delete_keys) :
                        Cardinality({c \in 1..n : delete_keys[p] \in Keys(group(c))}) = 1
                  /\ (n - 1) * ChunkSize + Len(group(n)) = Len(delete_keys)

\* a list of more than 25 keys whose second group is being sent for the first time
C30_Witness ==
    /\ pc = "batch"
    /\ chunk = 2 /\ attempts = 0
    /\ Len(delete_keys) > ChunkSize + 1
    /\ Len(unprocessed) < ChunkSize
    /\ unprocessed[1] = delete_keys[ChunkSize + 1]
    /\ Keys(chunk_at(delete_keys, 1)) \subseteq sent

(* C31: within one group, attempt n+1 carries exactly the delete requests  *)
(* the store left unprocessed in attempt n, and no key it processed; the    *)
(* sleep before attempt n+1 is 100 ms times n, n = 1..4; after the fifth    *)
(* attempt, or after an attempt with nothing unprocessed, nothing is slept. *)
C31_RetryCarriesUnprocessed ==
    [][pc = "batch" =>
          IF pc' = "batch" /\ chunk' = chunk
          THEN LET n == attempts + 1
               IN  /\ n \in 1..(MaxAttempts - 1)
                   /\ attempts' = n
                   /\ \E p \in 0..(Len(unprocessed) - 1) :
                         /\ table' = Deleted(table, unprocessed, p)
                         /\ unprocessed' = SubSeq(unprocessed, p + 1, Len(unprocessed))
                   /\ Keys(unprocessed') \cap (DOMAIN table \ DOMAIN table') = {}
                   /\ outcome'[calln].slept = 100 * n
          ELSE outcome'[calln].slept = 0]_vars

\* the fifth attempt of a group is about to be sent, after a sleep of 400 ms,
\* with fewer keys than the group holds
C31_Witness ==
    /\ pc = "batch"
    /\ attempts = MaxAttempts - 1
    /\ outcome[calln].slept = 400
    /\ unprocessed # <<>>
    /\ Len(unprocessed) < Len(chunk_at(delete_keys, chunk))
    /\ Keys(chunk_at(delete_keys, chunk)) \ Keys(unprocessed) \subseteq sent

(* C32: delete_block updates no counter.  Whatever row is stored during   *)
(* or after a call, complete, failed or partial, was stored before it and   *)
(* holds the fields and counter values it held then.                        *)
C32_CascadeWritesNoCounter ==
    /\ \A key \in DOMAIN table :
          Has(table0, key) /\ table[key] = table0[key]
    /\ (Len(outcome) >= 1 /\ outcome[Len(outcome)].result # "running") =>
          \A key \in DOMAIN outcome[Len(outcome)].left :
              /\ Has(Before(Len(outcome)), key)
              /\ outcome[Len(outcome)].left[key] = Before(Len(outcome))[key]

\* a call failed after the store had deleted rows: the Task rows are gone, and
\* the Block row and an Image row survive with counters above 0
C32_Witness ==
    /\ pc = "idle"
    /\ Len(outcome) >= 1
    /\ outcome[1].error = "batch"
    /\ Has(table0, TaskKey(B, 1)) /\ ~Has(outcome[1].left, TaskKey(B, 1))
    /\ Has(outcome[1].left, BlockKey(B))
    /\ outcome[1].left[BlockKey(B)].image_count > 0
    /\ outcome[1].left[BlockKey(B)].annotation_count > 0
    /\ \E key \in DOMAIN outcome[1].left :
          key[2][1] = "IMAGE#" /\ outcome[1].left[key].annotation_count > 0

\* the Annotation rows stored under IMAGE#<image_id>
AnnotationsUnder(tb, i) ==
    {key \in DOMAIN tb : key[1] = <<"IMAGE#", i>> /\ key[2][1] = "ANNOTATION#"}

(* C33: after any sequence of successful create_annotation and            *)
(* delete_annotation requests on existing images, one after the other,    *)
(* each delete naming an annotation that is stored, Image.annotation_count *)
(* is the number of Annotation rows stored under IMAGE#<image_id>.         *)
C33_ImageAnnotationCountIsRows ==
    \A i \in 1..AnnotImages :
        /\ Has(table, ImageKey(B, i))
        /\ table[ImageKey(B, i)].annotation_count =
              Cardinality(AnnotationsUnder(table, i))
        /\ nFailed = 0 /\ nPhantom = 0

\* annotations were created on both images, and one of those on image 1 was
\* deleted again
C33_Witness ==
    /\ nextId.annotation = AnnotMax
    /\ AnnotationsUnder(table, 1) = {AnnotationKey(1, 3)}
    /\ ~Has(table, AnnotationKey(1, 1))
    /\ table[ImageKey(B, 1)].annotation_count = 1
    /\ table[ImageKey(B, 2)].annotation_count = 2

\* both concurrent requests have finished, with Ok or with an error
BothFinished ==
    race # NoRace /\ \A p \in DOMAIN race : race[p].pc \in {"returned", "failed"}

\* the Image rows of the block, and those among them under task t
StoredImages(tb) ==
    {key \in DOMAIN tb : key[1] = <<"BLOCK#", B>> /\ key[2][1] = "IMAGE#"}

StoredImagesOf(tb, t) ==
    {key \in StoredImages(tb) : "task_id" \in DOMAIN tb[key] /\ tb[key].task_id = t}

(* C34: when two concurrent delete_image requests for the same existing     *)
(* image have both finished, Block.image_count is the number of Image rows  *)
(* left in the block and Task.image_count the number of Image rows left     *)
(* under the task, however the store calls interleaved.                     *)
C34_ImageCountedOutOnce ==
    (/\ BothFinished
     /\ \A p \in DOMAIN race : race[p].op = "delete_image" /\ race[p].a = race[1].a
     /\ Has(table0, ImageKey(B, race[1].a))) =>
        /\ Block(table).image_count = Cardinality(StoredImages(table))
        /\ table[TaskKey(B, 1)].image_count = Cardinality(StoredImagesOf(table, 1))

(* C35: when two concurrent update_task requests that both set task_state   *)
(* to "done" on the same task, which was not done and had image_count = k,  *)
(* have both completed, Block.approved_image_count is k higher than before, *)
(* however the store calls interleaved.                                     *)
C35_ApprovedOnceForTwoDone ==
    (/\ BothReturned
     /\ \A p \in DOMAIN race :
           /\ race[p].op = "update_task" /\ race[p].a = race[1].a
           /\ race[p].payload.task_state = "done"
     /\ table0[TaskKey(B, race[1].a)].task_state # "done") =>
        Block(table).approved_image_count =
            Block(table0).approved_image_count
                + table0[TaskKey(B, race[1].a)].image_count

\* the counter fields rows hold
Counters == {"image_count", "approved_image_count", "annotation_count"}

(* C36: in every state reached by requests served one after the other,     *)
(* failing requests and requests for ids without a stored row included,     *)
(* every stored counter (Block.image_count, Block.approved_image_count,     *)
(* Block.annotation_count, Task.image_count, Image.annotation_count) is at  *)
(* least 0.                                                                 *)
C36_CountersNotNegative ==
    \A key \in DOMAIN table :
        \A c \in Counters \cap DOMAIN table[key] : table[key][c] >= 0

\* the calls of the request that the store has carried out: all of them, or
\* all but the last when the request failed
Done == IF last.ok THEN 1..Len(last.calls) ELSE 1..(Len(last.calls) - 1)

\* how often the request has successfully adjusted counter c of row key
Adjusted(key, c) ==
    Cardinality({n \in Done : last.calls[n] = Call("update_item", key, c)})

(* C37: in delete_image the delete of the Image row is the last store      *)
(* call.  When an earlier step fails, delete_image returns the error, the   *)
(* Image row and every annotation whose delete was not carried out are      *)
(* still stored, and each counter stays lowered by the decrements that      *)
(* were carried out.                                                        *)
C37_DeleteImageRowLast ==
    (last.op = "delete_image" /\ Has(table0, ImageKey(B, last.a))) =>
        LET row == Call("delete_item", ImageKey(B, last.a), "")
            n == Len(last.calls)
        IN  /\ \A k \in 1..n : last.calls[k] = row => k = n
            /\ last.ok => last.calls[n] = row /\ ~Has(table, ImageKey(B, last.a))
            /\ ~last.ok =>
                  /\ last.err # ""
                  /\ Has(table, ImageKey(B, last.a))
                  /\ \A key \in AnnotationsUnder(table0, last.a) :
                        (\A k \in Done : last.calls[k] # Call("delete_item", key, ""))
                            => Has(table, key) /\ table[key] = table0[key]
            /\ \A key \in DOMAIN table :
                  \A c \in Counters \cap DOMAIN table[key] :
                      /\ Has(table0, key)
                      /\ table[key][c] = table0[key][c] - Adjusted(key, c)

\* delete_image of an image under a task failed while deleting its second
\* annotation: the first annotation is gone, the second and the Image row are
\* stored, and the counters are lowered
C37_Witness ==
    /\ last.op = "delete_image"
    /\ ~last.ok
    /\ Has(table, ImageKey(B, last.a))
    /\ "task_id" \in DOMAIN table[ImageKey(B, last.a)]
    /\ ~Has(table, AnnotationKey(last.a, 1))
    /\ Has(table0, AnnotationKey(last.a, 1))
    /\ Has(table, AnnotationKey(last.a, 2))
    /\ last.calls[Len(last.calls)] = Call("delete_item", AnnotationKey(last.a, 2), "")
    /\ Block(table).image_count = Block(table0).image_count - 1
    /\ Block(table).annotation_count = Block(table0).annotation_count - 1

\* the pages 1..n in order
UpTo(n) == [k \in 1..n |-> k]

\* what holds of a delete_s3_prefix call at every moment: pages are asked for
\* one after the other, each by the token of the page before; every non-empty
\* page listed has had one delete request, in order, whether or not an earlier
\* delete request failed; the call returns Ok only at the page that is not
\* truncated, and an error only from a listing
PurgeInOrder ==
    last.op = "delete_s3_prefix" =>
        LET n == Len(last.listed)
            handled == IF last.pc = "delete" THEN n - 1 ELSE n
            nonempty == SelectSeq(UpTo(handled), LAMBDA k : last.pages[k] # {})
        IN  /\ last.listed = UpTo(n)
            /\ n <= Len(last.pages)
            /\ last.pc = "list" /\ n > 0 => last.continuation = <<n + 1>>
            /\ [d \in 1..Len(last.deletes) |-> last.deletes[d].page] = nonempty
            /\ last.pc = "returned" => n = Len(last.pages)
            /\ last.pc = "failed" => last.err = "S3 list failed" /\ n < Len(last.pages)

(* C38: delete_s3_prefix terminates for every finite listing: it asks for  *)
(* the pages one after another by the continuation token of the page        *)
(* before, sends one delete request for each non-empty page, goes on when a *)
(* delete request fails, and stops at the first page that is not truncated. *)
C38_PurgeTerminates ==
    /\ []PurgeInOrder
    /\ <>(last.op = "delete_s3_prefix" /\ last.pc \in {"returned", "failed"})

\* three pages: the delete of the first failed, the second was empty, the third
\* was deleted, and the call returned
C38_Witness ==
    /\ last.op = "delete_s3_prefix"
    /\ last.pc = "returned"
    /\ Len(last.pages) = 3
    /\ last.pages[2] = {}
    /\ last.listed = <<1, 2, 3>>
    /\ last.deletes = <<[page |-> 1, ok |-> FALSE], [page |-> 3, ok |-> TRUE]>>
    /\ last.objects = last.pages[1]

(* C39: after a successful update_label on an existing label with          *)
(* label_name = n in the payload, the label that get_label and              *)
(* fetch_labels_for_block read has label_name = n, and the label's other    *)
(* fields are as before.                                                    *)
C39_RenamedLabelIsRead ==
    (/\ last.op = "update_label"
     /\ last.ok
     /\ Has(table0, LabelKey(B, last.a))
     /\ "label_name" \in DOMAIN last.payload) =>
        LET key == LabelKey(B, last.a)
            read == LabelRow(table, key[2])
            fetched == fetch_labels_for_block(table)
        IN  /\ read.label_name = last.payload.label_name
            /\ \E n \in 1..Len(fetched) : fetched[n] = read
            /\ \A a \in DOMAIN table0[key] \ DOMAIN last.payload :
                  a \in DOMAIN table[key] /\ table[key][a] = table0[key][a]

============================================================================
